---- MODULE Spec2Model ----
(***************************************************************************)
(* A model of butterfly's OpenFOAM Case (src/butterfly/case.py): the       *)
(* folder tree under the project root with the numbered-folder listing,    *)
(* freeze/restore, removal and purge operations, the command dispatch and  *)
(* its classification, and the refinement-region bookkeeping.              *)
(*                                                                         *)
(* Folder names are sequences of one-character strings, with the substring *)
(* ".org" and the fixed folder names kept as single tokens, so that        *)
(* str.isdigit, int(), str(), str.endswith and str.replace are computed as *)
(* Python computes them.  The path constants of case.py use backslash      *)
(* separators, so os.rename is the Windows one: it fails when the          *)
(* destination exists.                                                     *)
(***************************************************************************)
EXTENDS Integers, Sequences, FiniteSets, TLC

VARIABLES
    root,       \* the project root: folder name -> folder (DOMAIN = os.listdir)
    pre,        \* the project root before the last operation
    prev,       \* the operation before the last one, and the names it started from
    last,       \* the last operation, its inputs and its outcome
    returned,   \* what the last operation returned to its caller
    proc,       \* the external process of the last command run
    logFile,    \* command name -> content of its log file
    errFile,    \* command name -> content of its error file
    invoked,    \* the inputs of the last call of Case.command
    result,     \* what the last call of Case.command returned
    snappyHexMeshDict,  \* whether the case has the attribute (a meshing document)
    refinementRegions,  \* Case.__refinementRegions
    registered,         \* the regions registered with the meshing document
    added,              \* the last call of addRefinementRegion(s) and its outcome
    projectName,        \* Case.__projectName
    originalName,       \* Case.__originalName
    foamFiles,          \* Case.__foamfiles: the documents of the case
    geometries,         \* Case.__geometries
    runmanager,         \* the project name Case.runmanager was built with
    built,              \* the last constructor or setter call and its outcome
    disk,               \* the working directory: path -> directory or file
    saved,              \* the last call of save, its inputs and its outcome
    task,               \* a folder operation between its listing and its actions
    tunnel,             \* the last TunnelParameters call and the object the caller holds
    ortho,              \* the last call of calculateMeshOrthogonality and its outcome
    bashLog             \* the file <logFolder>/checkMesh.log: its content, or absent

folderVars == <<root, pre, prev, last, returned>>

commandVars == <<proc, logFile, errFile, invoked, result>>

regionVars == <<snappyHexMeshDict, refinementRegions, registered, added>>

caseVars == <<projectName, originalName, foamFiles, geometries, runmanager, built>>

saveVars == <<disk, saved>>

taskVars == <<task>>

laterVars == <<tunnel, ortho, bashLog>>

newerVars == <<caseVars, saveVars, taskVars, laterVars>>

vars == <<folderVars, commandVars, regionVars, newerVars>>

(***************************************************************************)
(* Bounds of the model.                                                    *)
(***************************************************************************)
MaxFolders == 2      \* folders an external actor may add under the root
MaxFailures == 1     \* removals/renames the file system refuses in one call
MaxRegions == 4      \* refinement regions a case is given

(***************************************************************************)
(* Names.                                                                  *)
(***************************************************************************)
Digits == <<"0", "1", "2", "3", "4", "5", "6", "7", "8", "9">>

DigitSet == {Digits[i] : i \in 1..10}

digitValue(c) == (CHOOSE i \in 1..10 : Digits[i] = c) - 1

\* str.isdigit(): non-empty and every character a digit
isdigit(name) == Len(name) > 0 /\ \A i \in 1..Len(name) : name[i] \in DigitSet

\* int(name) of a digit string: leading zeros are dropped
RECURSIVE int(_)
int(name) ==
    IF Len(name) = 0 THEN 0
    ELSE 10 * int(SubSeq(name, 1, Len(name) - 1)) + digitValue(name[Len(name)])

\* str(n) of a non-negative integer: the canonical decimal numeral
RECURSIVE str(_)
str(n) ==
    IF n < 10 THEN <<Digits[n + 1]>>
    ELSE Append(str(n \div 10), Digits[(n % 10) + 1])

\* name.endswith('.org')
endswithOrg(name) == Len(name) > 0 /\ name[Len(name)] = ".org"

\* name.replace('.org', ''): every occurrence is dropped
IsNotOrg(t) == t # ".org"

replaceOrg(name) == SelectSeq(name, IsNotOrg)

\* '%s.org' % f
addOrg(name) == Append(name, ".org")

Zero == <<"0">>
ConstantDir == <<"constant">>
SystemDir == <<"system">>
LogDir == <<"log">>
PostProcessing == <<"postProcessing">>

\* the top-level folders Case.SUBFOLDERS names
SUBFOLDERS == {Zero, ConstantDir, SystemDir, LogDir}

\* names an external actor (the solver, the user) may create under the root
NumberedNames == { <<"2">>, <<"3">>, <<"1", "0">>, <<"0", "2">> }

FrozenNames == { <<"2", ".org">> }

ExtNames == NumberedNames \cup FrozenNames \cup {PostProcessing}

\* entries of the live mesh folder constant\polyMesh; "sets" is a directory
MeshEntries == {"blockMeshDict", "points", "sets"}

\* a folder: whether it holds a polyMesh subfolder, the entries of that
\* subfolder, and the documents directly in it
Folder(poly, mesh, docs) == [poly |-> poly, mesh |-> mesh, docs |-> docs]

NewFolder(poly) == Folder(poly, IF poly THEN {"points"} ELSE {}, {})

\* the tree save() leaves for a case with its documents
SavedRoot ==
    [n \in SUBFOLDERS |->
        CASE n = Zero -> Folder(FALSE, {}, {"U", "p"})
          [] n = ConstantDir -> Folder(TRUE, {"blockMeshDict"}, {"transportProperties"})
          [] n = SystemDir -> Folder(FALSE, {}, {"controlDict", "snappyHexMeshDict"})
          [] OTHER -> Folder(FALSE, {}, {})]

(***************************************************************************)
(* File-system primitives.                                                 *)
(***************************************************************************)
listdir(r) == DOMAIN r

isdir(r, n) == n \in DOMAIN r

hasPolyMesh(r, n) == n \in DOMAIN r /\ r[n].poly

\* shutil.rmtree: raises when the folder is missing or the removal is refused
rmtreeFails(r, n, failing) == n \notin DOMAIN r \/ n \in failing

rmtree(r, n) == [x \in DOMAIN r \ {n} |-> r[x]]

\* os.rename: raises when the source is missing, the destination exists (or is
\* the root itself), or the rename is refused
renameOverwrites(r, s, d, failing) ==
    s \notin DOMAIN r \/ d = <<>> \/ s \in failing

renameFails(r, s, d, failing) ==
    s \notin DOMAIN r \/ d \in DOMAIN r \/ d = <<>> \/ s \in failing

rename(r, s, d) ==
    [x \in (DOMAIN r \ {s}) \cup {d} |-> IF x = d THEN r[s] ELSE r[x]]

(***************************************************************************)
(* Numbered-folder discovery.                                              *)
(***************************************************************************)
\* _f = [int(name) for name in ...]; _f.sort()
RECURSIVE sortInts(_)
sortInts(S) ==
    IF S = {} THEN <<>>
    ELSE LET m == CHOOSE x \in S : \A y \in S : int(x) <= int(y)
         IN <<int(m)>> \o sortInts(S \ {m})

\* tuple(str(f) for f in _f)
strAll(f) == [i \in 1..Len(f) |-> str(f[i])]

getSnappyHexMeshFolders(r) ==
    strAll(sortInts({name \in listdir(r) : isdigit(name) /\ hasPolyMesh(r, name)}))

getResultFolders(r) ==
    strAll(sortInts({name \in listdir(r) :
        name # Zero /\ isdigit(name) /\ isdir(r, name) /\ ~hasPolyMesh(r, name)}))

(***************************************************************************)
(* Outcome of an operation on the tree: the tree it leaves, the exception  *)
(* it raised ("none" when it returned) and the folders whose failure it    *)
(* reported without raising.                                               *)
(***************************************************************************)
Outcome(r, raised, reported) == [root |-> r, raised |-> raised, reported |-> reported]

Perms(S) ==
    {p \in [1..Cardinality(S) -> S] : \A i, j \in 1..Cardinality(S) : p[i] = p[j] => i = j}

(***************************************************************************)
(* renameSnappyHexMeshFolders.                                             *)
(***************************************************************************)
\* add=True: each listed folder f is renamed to f.org; a failing rename raises
RECURSIVE freezeLoop(_, _, _)
freezeLoop(r, folders, failing) ==
    IF folders = <<>> THEN Outcome(r, "none", {})
    ELSE LET f == Head(folders)
         IN IF renameFails(r, f, addOrg(f), failing)
            THEN Outcome(r, "Exception", {})
            ELSE freezeLoop(rename(r, f, addOrg(f)), Tail(folders), failing)

\* add=False: the names of os.listdir, in the order it gave them; each name
\* that ends with .org and holds a polyMesh folder when its turn comes is
\* renamed to the name without .org; a failing rename raises (no handler)
RECURSIVE restoreLoop(_, _, _)
restoreLoop(r, names, failing) ==
    IF names = <<>> THEN Outcome(r, "none", {})
    ELSE LET f == Head(names)
         IN IF ~(endswithOrg(f) /\ hasPolyMesh(r, f))
            THEN restoreLoop(r, Tail(names), failing)
            ELSE IF renameFails(r, f, replaceOrg(f), failing)
                 THEN Outcome(r, "OSError", {})
                 ELSE restoreLoop(rename(r, f, replaceOrg(f)), Tail(names), failing)

renameSnappyHexMeshFolders(r, add, order, failing) ==
    IF ~add THEN restoreLoop(r, order, failing)
    ELSE freezeLoop(r, getSnappyHexMeshFolders(r), failing)

\* the orders os.listdir may give the names that end with .org
ListingOrders(r) == Perms({n \in listdir(r) : endswithOrg(n)})

(***************************************************************************)
(* The remove* methods.                                                    *)
(***************************************************************************)
\* the handler of removeSnappyHexMeshFolders formats the name _f, which the
\* method never binds (its loop variable is f), so a failing rmtree ends the
\* method with a NameError raised from the handler
RECURSIVE removeSnappyLoop(_, _, _)
removeSnappyLoop(r, folders, failing) ==
    IF folders = <<>> THEN Outcome(r, "none", {})
    ELSE LET f == Head(folders)
         IN IF rmtreeFails(r, f, failing)
            THEN Outcome(r, "NameError", {})
            ELSE removeSnappyLoop(rmtree(r, f), Tail(folders), failing)

removeSnappyHexMeshFolders(r, order, failing) ==
    LET restored == renameSnappyHexMeshFolders(r, FALSE, order, failing)
    IN IF restored.raised # "none" THEN restored
       ELSE removeSnappyLoop(restored.root, getSnappyHexMeshFolders(restored.root), failing)

\* a failing rmtree is printed and the loop goes on
RECURSIVE removeResultLoop(_, _, _, _)
removeResultLoop(r, folders, failing, reported) ==
    IF folders = <<>> THEN Outcome(r, "none", reported)
    ELSE LET f == Head(folders)
         IN IF rmtreeFails(r, f, failing)
            THEN removeResultLoop(r, Tail(folders), failing, reported \cup {f})
            ELSE removeResultLoop(rmtree(r, f), Tail(folders), failing, reported)

removeResultFolders(r, failing) ==
    removeResultLoop(r, getResultFolders(r), failing, {})

removePostProcessingFolder(r, failing) ==
    IF ~isdir(r, PostProcessing) THEN Outcome(r, "none", {})
    ELSE IF rmtreeFails(r, PostProcessing, failing)
         THEN Outcome(r, "none", {PostProcessing})
         ELSE Outcome(rmtree(r, PostProcessing), "none", {})

\* every entry of constant\polyMesh but blockMeshDict is removed, with no
\* handler: the first refused entry raises, after the entries listed before
\* it (removedFirst) are gone
keepsNothing(f) == FALSE

keepsBlockMeshDict(f) == f = "blockMeshDict"

removePolyMeshContent(r, failMesh, removedFirst) ==
    IF ~hasPolyMesh(r, ConstantDir) THEN Outcome(r, "OSError", {})
    ELSE LET entries == {f \in r[ConstantDir].mesh : ~keepsBlockMeshDict(f)}
             refused == entries \cap failMesh
             gone == IF refused = {} THEN entries ELSE removedFirst \cap (entries \ refused)
         IN Outcome([r EXCEPT ![ConstantDir].mesh = @ \ gone],
                    IF refused = {} THEN "none" ELSE "OSError", {})

(***************************************************************************)
(* purge: the four steps in order; an exception ends it.                   *)
(***************************************************************************)
Then(a, b) ==
    IF a.raised # "none" THEN a
    ELSE Outcome(b.root, b.raised, a.reported \cup b.reported)

purge(r, flags, order, failing, failMesh, removedFirst) ==
    LET s1 == IF flags.polyMesh THEN removePolyMeshContent(r, failMesh, removedFirst)
              ELSE Outcome(r, "none", {})
        s2 == IF flags.snappy THEN removeSnappyHexMeshFolders(s1.root, order, failing)
              ELSE Outcome(s1.root, "none", {})
        s3 == IF flags.result THEN removeResultFolders(s2.root, failing)
              ELSE Outcome(s2.root, "none", {})
        s4 == IF flags.post THEN removePostProcessingFolder(s3.root, failing)
              ELSE Outcome(s3.root, "none", {})
    IN Then(s1, Then(s2, Then(s3, s4)))

(***************************************************************************)
(* The state machine of the folder tree.                                   *)
(***************************************************************************)
Flags == [polyMesh : BOOLEAN, snappy : BOOLEAN, result : BOOLEAN, post : BOOLEAN]

NoFlags == [polyMesh |-> FALSE, snappy |-> FALSE, result |-> FALSE, post |-> FALSE]

Op(op, flags, failing, failMesh, out) ==
    [op |-> op, flags |-> flags, failing |-> failing, failMesh |-> failMesh,
     raised |-> out.raised, reported |-> out.reported]

Quiet(r) == Outcome(r, "none", {})

NoListing == [mesh |-> <<>>, result |-> <<>>]

\* the names a call may hand to rmtree or os.rename, and the refusals the
\* file system may answer them with
Touched(r) ==
    {str(int(n)) : n \in {m \in listdir(r) : isdigit(m)}}
        \cup {n \in listdir(r) : endswithOrg(n) \/ n = PostProcessing}
        \cup {replaceOrg(n) : n \in {m \in listdir(r) : endswithOrg(m)}}

Refusals(r) == {F \in SUBSET Touched(r) : Cardinality(F) <= MaxFailures}

MeshRefusals(r, F) ==
    {M \in SUBSET (r[ConstantDir].mesh \ {"blockMeshDict"}) :
        Cardinality(F) + Cardinality(M) <= MaxFailures}

NoCall == [op |-> "idle", flags |-> NoFlags, failing |-> {}, failMesh |-> {},
           raised |-> "none", reported |-> {}]

NoFreeze == [op |-> "other", names |-> {}]

\* the caller makes one call at a time: a call records the tree it started
\* from, its inputs and what it gave back
Call(op, r, ret) ==
    /\ last.op = "idle"
    /\ root' = r
    /\ pre' = root
    /\ prev' = prev
    /\ last' = op
    /\ returned' = ret
    /\ UNCHANGED <<commandVars, regionVars, newerVars>>

\* the caller takes the outcome of its call and goes on; that the call was a
\* freeze that returned is kept for the call that follows it
Continue ==
    /\ last.op # "idle"
    /\ root' = root
    /\ pre' = root
    /\ prev' = IF last.op = "freeze" /\ last.raised = "none"
               THEN [op |-> "freeze", names |-> listdir(pre)]
               ELSE NoFreeze
    /\ last' = NoCall
    /\ returned' = NoListing
    /\ UNCHANGED <<commandVars, regionVars, newerVars>>

\* a step of an external actor
Outside(r) ==
    /\ root' = r
    /\ pre' = r
    /\ prev' = NoFreeze
    /\ last' = NoCall
    /\ returned' = NoListing
    /\ UNCHANGED <<commandVars, regionVars, newerVars>>

InitFolders ==
    /\ root = SavedRoot
    /\ pre = SavedRoot
    /\ prev = NoFreeze
    /\ last = NoCall
    /\ returned = NoListing

\* the solver or the user adds a folder under the root
ExternalCreate ==
    \E n \in ExtNames \ listdir(root), poly \in BOOLEAN :
        /\ Cardinality(listdir(root) \ SUBFOLDERS) < MaxFolders
        /\ n = PostProcessing => ~poly
        /\ Outside([x \in listdir(root) \cup {n} |->
                      IF x = n THEN NewFolder(poly) ELSE root[x]])

\* a mesher writes a mesh description into the field folder 0
ExternalMeshInZero ==
    /\ isdir(root, Zero) /\ ~hasPolyMesh(root, Zero)
    /\ Outside([root EXCEPT ![Zero].poly = TRUE, ![Zero].mesh = {"points"}])

\* a mesher writes the live mesh folder constant\polyMesh: the mesh files,
\* then a sets directory
ExternalWriteMesh ==
    /\ hasPolyMesh(root, ConstantDir)
    /\ root[ConstantDir].mesh # MeshEntries
    /\ Outside([root EXCEPT ![ConstantDir].mesh =
                  IF "points" \in @ THEN MeshEntries ELSE @ \cup {"points"}])

\* getSnappyHexMeshFolders() and getResultFolders()
List ==
    /\ last.op = "idle"
    /\ Call(Op("list", NoFlags, {}, {}, Quiet(root)), root,
            [mesh |-> getSnappyHexMeshFolders(root), result |-> getResultFolders(root)])

\* renameSnappyHexMeshFolders(add=True).  A refusal the call never meets
\* changes nothing, so only the refusals that change the outcome are drawn.
Freeze ==
    \E failing \in Refusals(root) :
        LET out == renameSnappyHexMeshFolders(root, TRUE, <<>>, failing)
        IN /\ \A n \in failing :
                out # renameSnappyHexMeshFolders(root, TRUE, <<>>, failing \ {n})
           /\ Call(Op("freeze", NoFlags, failing, {}, out), out.root, NoListing)

\* renameSnappyHexMeshFolders(add=False)
Restore ==
    \E failing \in Refusals(root), order \in ListingOrders(root) :
        LET out == renameSnappyHexMeshFolders(root, FALSE, order, failing)
        IN /\ \A n \in failing :
                out # renameSnappyHexMeshFolders(root, FALSE, order, failing \ {n})
           /\ Call(Op("restore", NoFlags, failing, {}, out), out.root, NoListing)

\* purge(removePolyMeshContent, removeSnappyHexMeshFolders, removeResultFolders,
\*       removePostProcessingFolder).  A refusal the call never meets changes
\* nothing, so only the refusals that change the outcome are drawn.
Purge ==
    \E flags \in Flags, failing \in Refusals(root), order \in ListingOrders(root) :
      \E failMesh \in (IF flags.polyMesh THEN MeshRefusals(root, failing) ELSE {{}}) :
        \E removedFirst \in (IF failMesh = {} THEN {{}}
                              ELSE SUBSET (root[ConstantDir].mesh \ ({"blockMeshDict"} \cup failMesh))) :
            \E out \in {purge(root, flags, order, failing, failMesh, removedFirst)} :
               /\ \A n \in failing :
                    out # purge(root, flags, order, failing \ {n}, failMesh, removedFirst)
               /\ \A m \in failMesh :
                    out # purge(root, flags, order, failing, failMesh \ {m}, removedFirst)
               /\ Call(Op("purge", flags, failing, failMesh, out), out.root, NoListing)

NextFolders ==
    \/ ExternalCreate
    \/ ExternalMeshInZero
    \/ ExternalWriteMesh
    \/ List
    \/ Freeze
    \/ Restore
    \/ Continue

NextPurge ==
    \/ ExternalCreate
    \/ ExternalMeshInZero
    \/ ExternalWriteMesh
    \/ Purge
    \/ Continue

(***************************************************************************)
(* copySnappyHexMesh: the mesh description of a numbered folder is copied   *)
(* into the live mesh folder constant\polyMesh.                            *)
(***************************************************************************)
\* the folderNumber argument: None, or an integer
None == [given |-> FALSE, n |-> 0]

Number(n) == [given |-> TRUE, n |-> n]

FolderNumbers == {None} \cup {Number(n) : n \in {0, 2, 3}}

\* `if folderNumber:` -- None and 0 are both false
truthy(folderNumber) == folderNumber.given /\ folderNumber.n # 0

NoSource == <<>>

Copy(out, source, copied) == [out |-> out, source |-> source, copied |-> copied]

\* distutils copy_tree(_s, polyMeshFolder): raises when _s is not a directory
\* or the copy is refused; otherwise the entries of _s are written over the
\* destination's, which is created when missing
copy_treeFails(r, source, copyFails) == ~hasPolyMesh(r, source) \/ copyFails

copy_tree(r, source) ==
    [r EXCEPT ![ConstantDir].poly = TRUE,
              ![ConstantDir].mesh = @ \cup r[source].mesh]

\* the folder _s is taken from: the one named when folderNumber is true, else
\* the last of the mesh-snapshot listing; found is false when the assert
\* fails or the listing is empty
sourceOf(r, folderNumber) ==
    IF truthy(folderNumber)
    THEN [found |-> hasPolyMesh(r, str(folderNumber.n)), raised |-> "AssertionError",
          source |-> str(folderNumber.n)]
    ELSE LET _folders == getSnappyHexMeshFolders(r)
         IN [found |-> _folders # <<>>, raised |-> "none",
             source |-> IF _folders = <<>> THEN NoSource ELSE _folders[Len(_folders)]]

copySnappyHexMesh(r, folderNumber, overwrite, failMesh, removedFirst, copyFails) ==
    LET s == sourceOf(r, folderNumber)
    IN IF ~s.found THEN Copy(Outcome(r, s.raised, {}), s.source, FALSE)
       ELSE LET cleared == IF overwrite THEN removePolyMeshContent(r, failMesh, removedFirst)
                           ELSE Quiet(r)
            IN IF cleared.raised # "none" THEN Copy(cleared, s.source, FALSE)
               ELSE IF copy_treeFails(cleared.root, s.source, copyFails)
                    THEN Copy(Outcome(cleared.root, "none", {s.source}), s.source, FALSE)
                    ELSE Copy(Quiet(copy_tree(cleared.root, s.source)), s.source, TRUE)

CopyOp(folderNumber, overwrite, failMesh, c) ==
    [op |-> "copy", flags |-> NoFlags, failing |-> {}, failMesh |-> failMesh,
     raised |-> c.out.raised, reported |-> c.out.reported,
     folderNumber |-> folderNumber, overwrite |-> overwrite,
     source |-> c.source, copied |-> c.copied]

\* copySnappyHexMesh(folderNumber, overwrite).  Only the refusals that change
\* the outcome are drawn.
CopySnappyHexMesh ==
    \E folderNumber \in FolderNumbers, overwrite \in BOOLEAN, copyFails \in BOOLEAN :
      \E failMesh \in (IF overwrite /\ hasPolyMesh(root, ConstantDir)
                       THEN MeshRefusals(root, {}) ELSE {{}}) :
        \E removedFirst \in (IF failMesh = {} THEN {{}}
                              ELSE SUBSET (root[ConstantDir].mesh \ ({"blockMeshDict"} \cup failMesh))) :
          \E c \in {copySnappyHexMesh(root, folderNumber, overwrite, failMesh, removedFirst, copyFails)} :
            /\ copyFails =>
                 c # copySnappyHexMesh(root, folderNumber, overwrite, failMesh, removedFirst, FALSE)
            /\ \A m \in failMesh :
                 c # copySnappyHexMesh(root, folderNumber, overwrite, failMesh \ {m}, removedFirst, copyFails)
            /\ Call(CopyOp(folderNumber, overwrite, failMesh, c), c.out.root, NoListing)

NextCopy ==
    \/ ExternalCreate
    \/ ExternalMeshInZero
    \/ ExternalWriteMesh
    \/ CopySnappyHexMesh
    \/ Continue

(***************************************************************************)
(* Case.command.  The run manager (module runmanager) starts the external  *)
(* process with its output redirected to <cmd>.log and <cmd>.err, waits    *)
(* for it when wait is set, and reads files back with checkFileContents.   *)
(***************************************************************************)
Commands == {"blockMesh", "snappyHexMesh", "checkMesh"}

LogContents == {"", "End"}

ErrContents == {"", "FOAM FATAL ERROR", "Segmentation fault"}

\* runmanager.command / runmanager.run: the command line and the file names
commandLine(cmd) == <<cmd>>

logfilesOf(cmd) == <<[file |-> cmd, ext |-> "log"]>>

errfilesOf(cmd) == <<[file |-> cmd, ext |-> "err"]>>

\* runmanager.checkFileContents(files): (hascontent, content)
checkFileContents(content) == [hascontent |-> content # "", content |-> content]

\* os.path.normpath(os.path.join(self.projectDir, f)) for f in files
underProjectDir(files) ==
    [i \in 1..Len(files) |-> [dir |-> "projectDir", file |-> files[i].file, ext |-> files[i].ext]]

log(success, error, process, logfiles, errfiles) ==
    [kind |-> "log", success |-> success, error |-> error, process |-> process,
     logfiles |-> logfiles, errorfiles |-> errfiles]

\* the branch of command for wait=True: the log files are checked for the
\* console only, the error files decide
waitedByLogFile(logCheck, errCheck, p, logfiles, errfiles) ==
    log(~logCheck.hascontent, errCheck.content, p, logfiles, errfiles)

waited(logCheck, errCheck, p, logfiles, errfiles) ==
    log(~errCheck.hascontent, errCheck.content, p, logfiles, errfiles)

\* the branch of command for wait=False
notWaited(logfiles, errfiles) == log(TRUE, "None", "None", logfiles, errfiles)

InitCommand ==
    /\ proc = "none"
    /\ logFile = [c \in Commands |-> ""]
    /\ errFile = [c \in Commands |-> ""]
    /\ invoked = [cmd |-> "none", run |-> FALSE, wait |-> FALSE]
    /\ result = [kind |-> "none"]

\* command(cmd, run=False): the command line and file names, nothing is run
CommandNotRun ==
    \E cmd \in Commands, wait \in BOOLEAN :
        /\ invoked' = [cmd |-> cmd, run |-> FALSE, wait |-> wait]
        /\ result' = [kind |-> "cmdlog", cmd |-> commandLine(cmd),
                      logfiles |-> logfilesOf(cmd), errorfiles |-> errfilesOf(cmd)]
        /\ UNCHANGED <<proc, logFile, errFile, folderVars, regionVars, newerVars>>

\* command(cmd, run=True, wait=True): the process runs to its end inside the
\* call, leaving what it wrote in its two files; then the files are read
CommandWait ==
    \E cmd \in Commands, out \in LogContents, err \in ErrContents :
        /\ proc # "running"
        /\ invoked' = [cmd |-> cmd, run |-> TRUE, wait |-> TRUE]
        /\ proc' = "exited"
        /\ logFile' = [logFile EXCEPT ![cmd] = out]
        /\ errFile' = [errFile EXCEPT ![cmd] = err]
        /\ result' = waited(checkFileContents(out), checkFileContents(err), "p",
                            underProjectDir(logfilesOf(cmd)), underProjectDir(errfilesOf(cmd)))
        /\ UNCHANGED <<folderVars, regionVars, newerVars>>

\* command(cmd, run=True, wait=False): the process is started, its files are
\* opened empty, and the call returns at once
CommandNoWait ==
    \E cmd \in Commands :
        /\ proc # "running"
        /\ invoked' = [cmd |-> cmd, run |-> TRUE, wait |-> FALSE]
        /\ proc' = "running"
        /\ logFile' = [logFile EXCEPT ![cmd] = ""]
        /\ errFile' = [errFile EXCEPT ![cmd] = ""]
        /\ result' = notWaited(underProjectDir(logfilesOf(cmd)), underProjectDir(errfilesOf(cmd)))
        /\ UNCHANGED <<folderVars, regionVars, newerVars>>

\* the running process writes its files
ProcessWrites ==
    \E out \in LogContents, err \in ErrContents :
        /\ proc = "running"
        /\ logFile[invoked.cmd] = "" /\ errFile[invoked.cmd] = ""
        /\ out # "" \/ err # ""
        /\ logFile' = [logFile EXCEPT ![invoked.cmd] = out]
        /\ errFile' = [errFile EXCEPT ![invoked.cmd] = err]
        /\ UNCHANGED <<proc, invoked, result, folderVars, regionVars, newerVars>>

\* the running process exits
ProcessExits ==
    /\ proc = "running"
    /\ proc' = "exited"
    /\ UNCHANGED <<logFile, errFile, invoked, result, folderVars, regionVars, newerVars>>

NextCommand ==
    \/ CommandNotRun
    \/ CommandWait
    \/ CommandNoWait
    \/ ProcessWrites
    \/ ProcessExits

(***************************************************************************)
(* The wrappers blockMesh, snappyHexMesh and checkMesh.                    *)
(***************************************************************************)
\* the record of a wrapper call: the command, the wait flag, the wrapper and
\* its overwrite flag
Wrapped(cmd, wait, overwrite) ==
    [cmd |-> cmd, run |-> TRUE, wait |-> wait, via |-> cmd, overwrite |-> overwrite]

\* what command(cmd, run=True, wait) returns once the process has left out
\* and err in its files (wait) or has just been started (no wait)
commandResult(cmd, wait, out, err) ==
    IF wait
    THEN waited(checkFileContents(out), checkFileContents(err), "p",
                underProjectDir(logfilesOf(cmd)), underProjectDir(errfilesOf(cmd)))
    ELSE notWaited(underProjectDir(logfilesOf(cmd)), underProjectDir(errfilesOf(cmd)))

\* the call of command a wrapper ends with
WrappedCommand(cmd, wait, overwrite) ==
    \E out \in (IF wait THEN LogContents ELSE {""}), err \in (IF wait THEN ErrContents ELSE {""}) :
        /\ proc # "running"
        /\ invoked' = Wrapped(cmd, wait, overwrite)
        /\ proc' = IF wait THEN "exited" ELSE "running"
        /\ logFile' = [logFile EXCEPT ![cmd] = out]
        /\ errFile' = [errFile EXCEPT ![cmd] = err]
        /\ result' = commandResult(cmd, wait, out, err)

\* a wrapper call as a call on the folder tree
WrappedCall(cmd, failMesh, out) ==
    /\ last.op = "idle"
    /\ root' = out.root
    /\ pre' = root
    /\ prev' = prev
    /\ last' = Op(cmd, NoFlags, {}, failMesh, out)
    /\ returned' = NoListing
    /\ UNCHANGED <<regionVars, newerVars>>

\* blockMesh(args, wait, overwrite): with overwrite the live mesh folder is
\* cleared first, and an exception of the clearing ends the call before
\* command is reached
BlockMesh ==
    \E wait \in BOOLEAN, overwrite \in BOOLEAN :
      \E failMesh \in (IF overwrite /\ hasPolyMesh(root, ConstantDir)
                       THEN MeshRefusals(root, {}) ELSE {{}}) :
        \E removedFirst \in (IF failMesh = {} THEN {{}}
                              ELSE SUBSET (root[ConstantDir].mesh \ ({"blockMeshDict"} \cup failMesh))) :
          LET out == IF overwrite THEN removePolyMeshContent(root, failMesh, removedFirst)
                     ELSE Quiet(root)
          IN /\ WrappedCall("blockMesh", failMesh, out)
             /\ IF out.raised = "none"
                THEN WrappedCommand("blockMesh", wait, overwrite)
                ELSE /\ invoked' = [Wrapped("blockMesh", wait, overwrite) EXCEPT !.run = FALSE]
                     /\ result' = [kind |-> "raised", error |-> out.raised]
                     /\ UNCHANGED <<proc, logFile, errFile>>

\* snappyHexMesh(args, wait)
SnappyHexMesh ==
    \E wait \in BOOLEAN :
        /\ WrappedCall("snappyHexMesh", {}, Quiet(root))
        /\ WrappedCommand("snappyHexMesh", wait, FALSE)

\* checkMesh(args, wait)
CheckMesh ==
    \E wait \in BOOLEAN :
        /\ WrappedCall("checkMesh", {}, Quiet(root))
        /\ WrappedCommand("checkMesh", wait, FALSE)

NextWrappers ==
    \/ BlockMesh
    \/ SnappyHexMesh
    \/ CheckMesh
    \/ ExternalWriteMesh
    \/ Continue
    \/ ProcessWrites
    \/ ProcessExits

(***************************************************************************)
(* Refinement regions.                                                     *)
(***************************************************************************)
Regions == {"region1", "region2"}

Objects == Regions \cup {"notARegion"}

\* hasattr(refinementRegion, 'isRefinementRegion')
isRefinementRegion(x) == x \in Regions

\* SnappyHexMeshDict.addRefinementRegion: the region joins the document's own
regionRegistered(reg, x) == Append(reg, x)

RegionState(regions, reg, raised, before) ==
    [regions |-> regions, registered |-> reg, raised |-> raised, before |-> before]

\* addRefinementRegion: the type is asserted, the region is appended, then the
\* meshing document is asserted and the region registered with it
addRefinementRegion(regions, reg, has, x) ==
    IF ~isRefinementRegion(x) THEN RegionState(regions, reg, "AssertionError", regions)
    ELSE IF ~has THEN RegionState(Append(regions, x), reg, "AssertionError", regions)
    ELSE RegionState(Append(regions, x), regionRegistered(reg, x), "none", regions)

\* addRefinementRegions: one call per element, the first exception ends it
RECURSIVE addRefinementRegions(_, _, _, _)
addRefinementRegions(regions, reg, has, xs) ==
    IF xs = <<>> THEN RegionState(regions, reg, "none", regions)
    ELSE LET one == addRefinementRegion(regions, reg, has, Head(xs))
         IN IF one.raised # "none" \/ Len(xs) = 1 THEN one
            ELSE addRefinementRegions(one.regions, one.registered, has, Tail(xs))

InitRegions ==
    /\ snappyHexMeshDict \in BOOLEAN
    /\ refinementRegions = <<>>
    /\ registered = <<>>
    /\ added = [op |-> "none", raised |-> "none", before |-> <<>>]

AddRefinementRegion ==
    \E x \in Objects :
        /\ Len(refinementRegions) < MaxRegions
        /\ LET out == addRefinementRegion(refinementRegions, registered, snappyHexMeshDict, x)
           IN /\ refinementRegions' = out.regions
              /\ registered' = out.registered
              /\ added' = [op |-> "addRefinementRegion", raised |-> out.raised,
                           before |-> out.before]
        /\ UNCHANGED <<snappyHexMeshDict, folderVars, commandVars, newerVars>>

AddRefinementRegions ==
    \E xs \in [1..2 -> Objects] :
        /\ Len(refinementRegions) + 2 <= MaxRegions
        /\ LET out == addRefinementRegions(refinementRegions, registered, snappyHexMeshDict, xs)
           IN /\ refinementRegions' = out.regions
              /\ registered' = out.registered
              /\ added' = [op |-> "addRefinementRegions", raised |-> out.raised,
                           before |-> out.before]
        /\ UNCHANGED <<snappyHexMeshDict, folderVars, commandVars, newerVars>>

NextRegions ==
    \/ AddRefinementRegion
    \/ AddRefinementRegions

(***************************************************************************)
(* The project name.  A name is its sequence of characters.                *)
(***************************************************************************)
Lower == {"a", "b", "c", "d", "e", "f", "g", "h", "i", "j", "k", "l", "m",
          "n", "o", "p", "q", "r", "s", "t", "u", "v", "w", "x", "y", "z"}

Upper == {"A", "B", "C", "D", "E", "F", "G", "H", "I", "J", "K", "L", "M",
          "N", "O", "P", "Q", "R", "S", "T", "U", "V", "W", "X", "Y", "Z"}

\* the character class [a-zA-Z0-9_]
WordChars == Lower \cup Upper \cup DigitSet \cup {"_"}

\* re.match("^[a-zA-Z0-9_]*$", name): every character up to the end is in
\* the class, where `$` matches at the end of the string and also just
\* before a newline that is its last character
reMatch(name) ==
    LET n == Len(name)
        body == IF n > 0 /\ name[n] = "\n" THEN SubSeq(name, 1, n - 1) ELSE name
    IN \A i \in 1..Len(body) : body[i] \in WordChars

\* the names a caller may hand to the case
ValidNames == { <<"c", "1">>, <<"A", "_", "9">> }

NameInputs ==
    ValidNames \cup
    { <<>>, <<"c", " ">>, <<"c", "-", "1">>, <<" ", "c">>, <<"c", "\t">>,
      <<"c", "\n">>, <<"\n">>, <<"c", "\n", "\n">>, <<"\n", "c">> }

\* the names handed to the constructors
ConstructorNames == ValidNames \cup { <<"c", " ">>, <<"c", "\n">> }

\* the projectName setter: the assert, then the assignment
setProjectName(current, name) ==
    IF reMatch(name) THEN [name |-> name, raised |-> "none"]
    ELSE [name |-> current, raised |-> "AssertionError"]

\* __originalName: None, or the name of the folder the case was loaded from
NoName == [given |-> FALSE, name |-> <<>>]

Named(name) == [given |-> TRUE, name |-> name]

(***************************************************************************)
(* Documents and construction.  The document classes (FoamFile and its     *)
(* subclasses) are not part of case.py: a document is modelled by its name, *)
(* the folder it is saved in and its content.                              *)
(***************************************************************************)
PolyMesh == <<"polyMesh">>

TriSurface == <<"triSurface">>

Bash == <<"bash">>

\* a document instance
FoamFile(name, location, content) ==
    [kind |-> "instance", name |-> name, location |-> location, content |-> content]

\* a document class itself (not an instance of it)
ClassObject(cls) == [kind |-> "class", name |-> cls, location |-> <<>>, content |-> "class"]

\* None in a document tuple (a file that could not be parsed)
NoneEntry == [kind |-> "None", name |-> "None", location |-> <<>>, content |-> "None"]

\* an object that is not a document
NotAFoamFile == [kind |-> "object", name |-> "object", location |-> <<>>, content |-> "object"]

\* what hasattr and getattr give on a document class depends on how FoamFile
\* declares isFoamFile and name: the marker is set per instance ("noMarker"),
\* or the class carries the marker and name is a property ("propertyName")
\* or an instance attribute ("noName")
ClassShapes == {"noMarker", "propertyName", "noName"}

\* hasattr(ff, 'isFoamFile')
isFoamFile(ff, shape) ==
    \/ ff.kind = "instance"
    \/ ff.kind = "class" /\ shape # "noMarker"

\* the loop of __init__ over foamfiles: None is skipped, the marker is
\* asserted, setattr(self, ff.name, ff) installs the document
RECURSIVE setFoamFiles(_, _)
setFoamFiles(ffs, shape) ==
    IF ffs = <<>> THEN "none"
    ELSE LET ff == Head(ffs)
         IN IF ff.kind = "None" THEN setFoamFiles(Tail(ffs), shape)
            ELSE IF ~isFoamFile(ff, shape) THEN "AssertionError"
            ELSE IF ff.kind = "class"
                 THEN (IF shape = "noName" THEN "AttributeError" ELSE "TypeError")
                 ELSE setFoamFiles(Tail(ffs), shape)

\* hasattr(self, name) after the loop
hasAttribute(ffs, name) ==
    \E i \in 1..Len(ffs) : ffs[i].kind = "instance" /\ ffs[i].name = name

\* getattr(self, name) after the loop: setattr binds the name anew for each
\* document of that name, so the last one stays
attributeOf(ffs, name) ==
    LET at == {i \in 1..Len(ffs) : ffs[i].kind = "instance" /\ ffs[i].name = name}
    IN ffs[CHOOSE i \in at : \A j \in at : j <= i]

\* geometries
Geometries == {"geo1", "geo2"}

GeometryObjects == Geometries \cup {"notAMesh"}

\* hasattr(geo, 'isBFMesh')
isBFMesh(geo) == geo \in Geometries

\* the check left out
checkNothing(geos) == "none"

\* __checkInputGeometries
checkInputGeometries(geos) ==
    IF \A i \in 1..Len(geos) : isBFMesh(geos[i]) THEN "none" ELSE "AssertionError"

\* Case.__init__: the name, the documents, the geometries
init(name, ffs, geos, shape) ==
    IF setProjectName(<<>>, name).raised # "none" THEN setProjectName(<<>>, name).raised
    ELSE IF setFoamFiles(ffs, shape) # "none" THEN setFoamFiles(ffs, shape)
    ELSE checkInputGeometries(geos)

\* __getFoamFileByName: the first document of that name; f.name is read on
\* every entry before it
RECURSIVE getFoamFileByName(_, _)
getFoamFileByName(name, ffs) ==
    IF ffs = <<>> THEN [raised |-> "none", found |-> NoneEntry]
    ELSE IF Head(ffs).kind = "None" THEN [raised |-> "AttributeError", found |-> NoneEntry]
    ELSE IF Head(ffs).kind = "instance" /\ Head(ffs).name = name
         THEN [raised |-> "none", found |-> Head(ffs)]
         ELSE getFoamFileByName(name, Tail(ffs))

\* the documents fromBFGeometries builds, in the order of its tuple
FieldNames == <<"U", "p", "k", "epsilon", "nut", "T", "alphat", "p_rgh">>

fieldDocuments == [i \in 1..Len(FieldNames) |-> FoamFile(FieldNames[i], <<Zero>>, "default")]

\* the tuple of fromBFGeometries: the second entry is the name
\* SnappyHexMeshDict, the class, where the local snappyHexMeshDict holds the
\* instance built from the geometries
fromBFGeometriesFoamFiles(blockMeshDict, ofVersion) ==
    << blockMeshDict, ClassObject("SnappyHexMeshDict"),
       FoamFile(IF ofVersion < 3 THEN "RASProperties" ELSE "turbulenceProperties",
                <<ConstantDir>>, "default"),
       FoamFile("transportProperties", <<ConstantDir>>, "default"),
       FoamFile("g", <<ConstantDir>>, "default") >>
    \o fieldDocuments \o
    << FoamFile("fvSchemes", <<SystemDir>>, "default"),
       FoamFile("fvSolution", <<SystemDir>>, "default"),
       FoamFile("controlDict", <<SystemDir>>, "default"),
       FoamFile("probes", <<SystemDir>>, "default") >>

\* the instance SnappyHexMeshDict.fromBFGeometries(name, geometries) gives,
\* after updateMeshingParameters
snappyHexMeshDictInstance == FoamFile("snappyHexMeshDict", <<SystemDir>>, "meshingParameters")

blockMeshDictFromMinMax == FoamFile("blockMeshDict", <<ConstantDir, PolyMesh>>, "fromMinMax")

blockMeshDictGiven == FoamFile("blockMeshDict", <<ConstantDir, PolyMesh>>, "given")

fromBFGeometries(name, geos, blockMeshDict, ofVersion, shape) ==
    IF checkInputGeometries(geos) # "none"
    THEN [raised |-> checkInputGeometries(geos), foamFiles |-> <<>>]
    ELSE LET ffs == fromBFGeometriesFoamFiles(blockMeshDict, ofVersion)
         IN [raised |-> init(name, ffs, geos, shape), foamFiles |-> ffs]

\* the documents of a case a caller builds from instances
CaseDocuments ==
    << FoamFile("blockMeshDict", <<ConstantDir, PolyMesh>>, "default"),
       FoamFile("snappyHexMeshDict", <<SystemDir>>, "default"),
       FoamFile("transportProperties", <<ConstantDir>>, "default"),
       FoamFile("U", <<Zero>>, "default"),
       FoamFile("p", <<Zero>>, "default"),
       FoamFile("controlDict", <<SystemDir>>, "default") >>

\* document tuples and geometry tuples a caller may hand to Case(...)
DocumentTuples ==
    { CaseDocuments,
      SubSeq(CaseDocuments, 3, 6),
      <<NoneEntry>> \o CaseDocuments,
      Append(CaseDocuments, NotAFoamFile),
      Append(CaseDocuments, FoamFile("U", <<Zero>>, "other")) }

GeometryTuples == { <<>>, <<"geo1", "geo2">>, <<"geo1", "notAMesh">> }

\* the record of the last call when it was a constructor or setter call: the name it was given, the
\* name before it, whether its other arguments were valid, what it raised
Built(op, arg, before, geos, restValid, raised) ==
    [op |-> op, arg |-> arg, before |-> before, geos |-> geos,
     restValid |-> restValid, raised |-> raised]

InitialName == <<"c", "1">>

\* the last call was not a constructor or setter call
NoBuild == Built("none", <<>>, <<>>, <<>>, TRUE, "none")

InitCase ==
    /\ projectName = InitialName
    /\ originalName = NoName
    /\ foamFiles = (IF snappyHexMeshDict THEN CaseDocuments ELSE SubSeq(CaseDocuments, 3, 6))
    /\ geometries = <<"geo1">>
    /\ runmanager = InitialName
    /\ built = Built("Case", InitialName, <<>>, <<"geo1">>, TRUE, "none")

\* a constructor call: the case it returns replaces the caller's when the
\* construction succeeds, and nothing changes when it raises
Constructed(name, ffs, geos, raised) ==
    /\ IF raised = "none"
       THEN /\ projectName' = name
            /\ originalName' = NoName
            /\ foamFiles' = ffs
            /\ geometries' = geos
            /\ runmanager' = name
            /\ snappyHexMeshDict' = hasAttribute(ffs, "snappyHexMeshDict")
            /\ refinementRegions' = <<>>
            /\ registered' = <<>>
            /\ added' = [op |-> "none", raised |-> "none", before |-> <<>>]
       ELSE UNCHANGED <<projectName, originalName, foamFiles, geometries, runmanager,
                        regionVars>>
    /\ UNCHANGED <<folderVars, commandVars, saveVars, taskVars, laterVars>>

\* Case(name, foamfiles, geometries)
NewCase ==
    \E name \in ConstructorNames, ffs \in DocumentTuples, geos \in GeometryTuples :
        /\ built' = Built("Case", name, projectName, geos,
                           init(InitialName, ffs, geos, "noMarker") = "none",
                           init(name, ffs, geos, "noMarker"))
        /\ Constructed(name, ffs, geos, init(name, ffs, geos, "noMarker"))

\* Case.fromBFGeometries(name, geometries, blockMeshDict, meshingParameters)
FromBFGeometries ==
    \E name \in ConstructorNames, geos \in GeometryTuples \ {<<>>},
       blockMeshDict \in {blockMeshDictFromMinMax, blockMeshDictGiven},
       ofVersion \in {2, 3}, shape \in ClassShapes :
        LET out == fromBFGeometries(name, geos, blockMeshDict, ofVersion, shape)
        IN /\ built' = Built("fromBFGeometries", name, projectName, geos,
                              checkInputGeometries(geos) = "none", out.raised)
           /\ Constructed(name, out.foamFiles, geos, out.raised)

\* case.projectName = name
SetProjectName ==
    \E name \in NameInputs :
        LET out == setProjectName(projectName, name)
        IN /\ projectName' = out.name
           /\ built' = Built("setProjectName", name, projectName, geometries, TRUE, out.raised)
           /\ UNCHANGED <<originalName, foamFiles, geometries, runmanager,
                          folderVars, commandVars, regionVars, saveVars, taskVars, laterVars>>

NextBuild ==
    \/ NewCase
    \/ FromBFGeometries
    \/ SetProjectName

(***************************************************************************)
(* The working directory and save.  A path is the sequence of the names    *)
(* from the working directory down; the disk maps each path that exists to *)
(* a directory or to a file with its content.                              *)
(***************************************************************************)
Dir == [kind |-> "dir", content |-> <<>>]

File(content) == [kind |-> "file", content |-> content]

exists(d, p) == p \in DOMAIN d

isdirPath(d, p) == p \in DOMAIN d /\ d[p].kind = "dir"

isfilePath(d, p) == p \in DOMAIN d /\ d[p].kind = "file"

\* p is q or lies under q
under(p, q) == Len(q) <= Len(p) /\ SubSeq(p, 1, Len(q)) = q

Prefixes(p) == {SubSeq(p, 1, k) : k \in 1..Len(p)}

\* the derived paths of a case
projectDir(name) == <<name>>

zeroFolder(name) == <<name, Zero>>

constantFolder(name) == <<name, ConstantDir>>

systemFolder(name) == <<name, SystemDir>>

logFolder(name) == <<name, Bash, LogDir>>

polyMeshFolder(name) == <<name, ConstantDir, PolyMesh>>

triSurfaceFolder(name) == <<name, ConstantDir, TriSurface>>

postProcessingFolder(name) == <<name, PostProcessing>>

\* Case.SUBFOLDERS in its order, as paths under the project root
SubfolderPaths ==
    << <<Zero>>, <<ConstantDir>>, <<ConstantDir, PolyMesh>>,
       <<ConstantDir, TriSurface>>, <<SystemDir>>, <<LogDir>> >>

\* the delete left out: nothing is removed
rmtreeSkipped(d, p, refused) == d

\* rmtree(projectDir, ignore_errors=True): everything under the root goes,
\* but the entries whose removal is refused and the directories above them
rmtreeIgnoreErrors(d, p, refused) ==
    LET stays(x) == ~under(x, p) \/ \E r \in refused : under(r, x)
    IN [x \in {y \in DOMAIN d : stays(y)} |-> d[x]]

\* os.makedirs(p): the missing directories down to p
makedirs(d, p) ==
    [x \in DOMAIN d \cup Prefixes(p) |-> IF x \in DOMAIN d THEN d[x] ELSE Dir]

\* raises when a name on the way is a file
makedirsFails(d, p) == \E x \in Prefixes(p) : isfilePath(d, x)

\* with open(path, 'ab'): the mutant of writeFile that appends
appendFile(d, p, content) ==
    [x \in DOMAIN d \cup {p} |->
        IF x = p THEN File((IF isfilePath(d, p) THEN d[p].content ELSE <<>>) \o content)
        ELSE d[x]]

\* open(path, 'wb') and write: the file is created or truncated, then written
writeFile(d, p, content) ==
    [x \in DOMAIN d \cup {p} |-> IF x = p THEN File(content) ELSE d[x]]

\* raises when the folder is missing or the path is a directory
writeFails(d, p) == ~isdirPath(d, SubSeq(p, 1, Len(p) - 1)) \/ isdirPath(d, p)

\* '%s.stl' % name
stlFile(name) == Append(name, ".stl")

\* the surface file named after the project whatever the original name
stlNameOfProject(orig, name) == name

\* stlName = self.__originalName or self.projectName: None and the empty
\* name are both false
stlName(orig, name) == IF orig.given /\ orig.name # <<>> THEN orig.name ELSE name

\* the steps of save after the delete, in their order: the subfolders, the
\* documents (f.save(projectDir) writes <location>/<name>), the merged
\* surface file, one surface file per refinement region
MkdirStep(p) == [kind |-> "mkdir", path |-> p, content |-> <<>>]

WriteStep(p, content) == [kind |-> "write", path |-> p, content |-> content]

NoneStep == [kind |-> "None", path |-> <<>>, content |-> <<>>]

saveSteps(name, orig, ffs, geos, regions) ==
    [i \in 1..Len(SubfolderPaths) |-> MkdirStep(projectDir(name) \o SubfolderPaths[i])]
    \o [i \in 1..Len(ffs) |->
          IF ffs[i].kind = "None" THEN NoneStep
          ELSE WriteStep(projectDir(name) \o ffs[i].location \o << <<ffs[i].name>> >>,
                         <<ffs[i].content>>)]
    \o << WriteStep(Append(triSurfaceFolder(name), stlFile(stlName(orig, name))), geos) >>
    \o [i \in 1..Len(regions) |->
          WriteStep(Append(triSurfaceFolder(name), stlFile(<<regions[i]>>)), <<regions[i]>>)]

Saved(d, raised, written) == [disk |-> d, raised |-> raised, written |-> written]

\* the steps run in order; step failAt is refused by the file system, and the
\* first exception ends save with what was written so far left in place
RECURSIVE runSteps(_, _, _, _, _)
runSteps(d, steps, k, failAt, written) ==
    IF k > Len(steps) THEN Saved(d, "none", written)
    ELSE LET step == steps[k]
         IN CASE step.kind = "mkdir" ->
                   IF exists(d, step.path) THEN runSteps(d, steps, k + 1, failAt, written)
                   ELSE IF k = failAt \/ makedirsFails(d, step.path)
                        THEN Saved(d, "IOError", written)
                        ELSE runSteps(makedirs(d, step.path), steps, k + 1, failAt, written)
              [] step.kind = "write" ->
                   IF k = failAt \/ writeFails(d, step.path)
                   THEN Saved(d, "IOError", written)
                   ELSE runSteps(writeFile(d, step.path, step.content), steps, k + 1,
                                 failAt, Append(written, step.path))
              [] OTHER -> Saved(d, "AttributeError", written)

\* a save that puts the tree back as it found it when a step fails
saveRolledBack(d, name, orig, ffs, geos, regions, overwrite, refused, failAt) ==
    LET cleared == IF overwrite /\ exists(d, projectDir(name))
                   THEN rmtreeIgnoreErrors(d, projectDir(name), refused)
                   ELSE d
        out == runSteps(cleared, saveSteps(name, orig, ffs, geos, regions), 1, failAt, <<>>)
    IN IF out.raised = "none" THEN out ELSE Saved(d, out.raised, out.written)

save(d, name, orig, ffs, geos, regions, overwrite, refused, failAt) ==
    LET cleared == IF overwrite /\ exists(d, projectDir(name))
                   THEN rmtreeIgnoreErrors(d, projectDir(name), refused)
                   ELSE d
    IN runSteps(cleared, saveSteps(name, orig, ffs, geos, regions), 1, failAt, <<>>)

EmptyDisk == [x \in {} |-> Dir]

\* the in-memory state save reads
Memory == <<projectName, originalName, foamFiles, geometries, refinementRegions>>

NoSave == [op |-> "none", overwrite |-> FALSE, refused |-> {}, failAt |-> 0,
           raised |-> "none", written |-> <<>>, before |-> EmptyDisk,
           memory |-> <<>>, again |-> FALSE]

\* the tree the first save of the case leaves in an empty working directory
InitSave ==
    /\ disk = save(EmptyDisk, projectName, originalName, foamFiles, geometries,
                   refinementRegions, FALSE, {}, 0).disk
    /\ saved = NoSave

\* the entries of the project root whose removal the file system may refuse;
\* a refused subfolder of SUBFOLDERS is emptied and stays, as if recreated
Refusable(d, name) ==
    {p \in DOMAIN d : under(p, projectDir(name)) /\ Len(p) = 2 /\ p[2] \notin SUBFOLDERS}

RefusedSets(d, name) ==
    {F \in SUBSET Refusable(d, name) : Cardinality(F) <= MaxFailures}

\* the steps of save the file system may refuse: none, the first subfolder,
\* the first document, the second document
FailPoints == {0, 1, Len(SubfolderPaths) + 1, Len(SubfolderPaths) + 2}

\* save(overwrite).  Only the refusals that change the outcome are drawn.
Save ==
    \E overwrite \in BOOLEAN :
      \E refused \in (IF overwrite THEN RefusedSets(disk, projectName) ELSE {{}}),
         failAt \in FailPoints :
        \E out \in {save(disk, projectName, originalName, foamFiles, geometries,
                         refinementRegions, overwrite, refused, failAt)} :
          /\ failAt # 0 =>
               out # save(disk, projectName, originalName, foamFiles, geometries,
                          refinementRegions, overwrite, refused, 0)
          /\ \A r \in refused :
               out # save(disk, projectName, originalName, foamFiles, geometries,
                          refinementRegions, overwrite, refused \ {r}, failAt)
          /\ disk' = out.disk
          /\ saved' = [op |-> "save", overwrite |-> overwrite, refused |-> refused,
                       failAt |-> failAt, raised |-> out.raised, written |-> out.written,
                       before |-> disk, memory |-> Memory,
                       again |-> /\ saved.op = "save" /\ saved.raised = "none"
                                 /\ ~saved.overwrite /\ saved.memory = Memory]
          /\ built' = NoBuild
          /\ UNCHANGED <<projectName, originalName, foamFiles, geometries, runmanager,
                         folderVars, commandVars, regionVars, taskVars, laterVars>>

\* names an external actor may create under the project root
ExternalFolders == { <<"2">>, <<"2", ".org">>, PostProcessing }

\* the solver or the user adds a folder under the project root
ExternalMkdir ==
    \E n \in ExternalFolders :
        /\ isdirPath(disk, projectDir(projectName))
        /\ ~exists(disk, <<projectName, n>>)
        /\ Cardinality({p \in DOMAIN disk : Len(p) = 2 /\ p[2] \in ExternalFolders}) < MaxFolders
        /\ disk' = makedirs(disk, <<projectName, n>>)
        /\ saved' = NoSave
        /\ UNCHANGED <<folderVars, commandVars, regionVars, caseVars, taskVars, laterVars>>

\* case.projectName = name, with a valid name
RenameProject ==
    \E name \in ValidNames \ {projectName} :
        /\ projectName' = setProjectName(projectName, name).name
        /\ built' = Built("setProjectName", name, projectName, geometries, TRUE,
                          setProjectName(projectName, name).raised)
        /\ UNCHANGED <<originalName, foamFiles, geometries, runmanager,
                       folderVars, commandVars, regionVars, saveVars, taskVars, laterVars>>

(***************************************************************************)
(* fromFolder.  loadCaseFiles, the parsers and the surface-file readers    *)
(* are outside case.py: the scan gives the files of the folders 0,         *)
(* constant and system in that order and the surface files of              *)
(* constant\triSurface.                                                    *)
(***************************************************************************)
\* the documents a scan may find, in the order of the scan
LoadOrder ==
    << [location |-> <<Zero>>, name |-> "U"], [location |-> <<Zero>>, name |-> "p"],
       [location |-> <<ConstantDir>>, name |-> "transportProperties"],
       [location |-> <<SystemDir>>, name |-> "controlDict"],
       [location |-> <<SystemDir>>, name |-> "snappyHexMeshDict"] >>

\* os.listdir gives the names of a folder in no fixed order: the scan of
\* system may meet snappyHexMeshDict before controlDict
LoadOrderMeshingFirst ==
    << LoadOrder[1], LoadOrder[2], LoadOrder[3], LoadOrder[5], LoadOrder[4] >>

LoadOrders == {LoadOrder, LoadOrderMeshingFirst}

docPath(path, f) == path \o f.location \o << <<f.name>> >>

\* loadCaseFiles(path, True): the documents found under path
loadCaseFiles(d, path, order) ==
    LET found(f) == isfilePath(d, docPath(path, f))
    IN SelectSeq(order, found)

\* a reader that gives a document of its own when parsing raised
createFoamfileDefault(d, path, f, broken) ==
    FoamFile(f.name, f.location,
             IF f.name \in broken THEN "recovered" ELSE d[docPath(path, f)].content[1])

\* __createFoamfileFromFile(p): the parsed document, or None when parsing
\* raised
createFoamfileFromFile(d, path, f, broken) ==
    IF f.name \in broken THEN NoneEntry
    ELSE FoamFile(f.name, f.location, d[docPath(path, f)].content[1])

\* os.path.split(path)[-1]: empty when the path ends with a separator
splitLast(path, trailing) == IF trailing THEN <<>> ELSE path[Len(path)]

\* the regions whose surface files lie in constant\triSurface
RECURSIVE regionsFromStlFiles(_, _, _)
regionsFromStlFiles(d, path, candidates) ==
    IF candidates = <<>> THEN <<>>
    ELSE (IF isfilePath(d, path \o <<ConstantDir, TriSurface, stlFile(<<Head(candidates)>>)>>)
          THEN <<Head(candidates)>> ELSE <<>>)
         \o regionsFromStlFiles(d, path, Tail(candidates))

\* the geometries of the merged surface file the meshing document names
bfGeometryFromStlFile(d, path, stl) ==
    IF isfilePath(d, path \o <<ConstantDir, TriSurface, stlFile(stl)>>)
    THEN d[path \o <<ConstantDir, TriSurface, stlFile(stl)>>].content
    ELSE <<>>

Loaded(raised, name, orig, ffs, geos, regions) ==
    [raised |-> raised, name |-> name, originalName |-> orig, foamFiles |-> ffs,
     geometries |-> geos, regions |-> regions]

\* what the scan made of the meshing document: no such file, a file that
\* did not parse, or the document
meshingDocument(d, path, broken) ==
    IF ~isfilePath(d, path \o <<SystemDir, <<"snappyHexMeshDict">> >>) THEN "absent"
    ELSE IF "snappyHexMeshDict" \in broken THEN "unparsed"
    ELSE "parsed"

fromFolder(d, path, trailing, name, broken, order) ==
    LET __originalName == splitLast(path, trailing)
        newName == IF name.given /\ name.name # <<>> THEN name.name ELSE __originalName
        _files == loadCaseFiles(d, path, order)
        ff == [i \in 1..Len(_files) |-> createFoamfileFromFile(d, path, _files[i], broken)]
        sHMD == getFoamFileByName("snappyHexMeshDict", ff)
        stl == IF exists(d, path \o <<ConstantDir, TriSurface, stlFile(path[Len(path)])>>)
               THEN path[Len(path)] ELSE newName
        geos == bfGeometryFromStlFile(d, path, stl)
        regions == regionsFromStlFiles(d, path, <<"region1", "region2">>)
        failed(e) == Loaded(e, newName, NoName, <<>>, <<>>, <<>>)
    IN IF ~isdirPath(d, path) THEN failed("OSError")
       ELSE IF sHMD.raised # "none" THEN failed(sHMD.raised)
       ELSE IF sHMD.found.kind = "None" THEN failed("AttributeError")
       ELSE IF init(newName, ff, geos, "noMarker") # "none"
            THEN failed(init(newName, ff, geos, "noMarker"))
            ELSE Loaded("none", newName, Named(__originalName), ff, geos, regions)

\* the new name a caller gives the case it loads
NewName == <<"A", "_", "9">>

\* Case.fromFolder(path, name)
FromFolder ==
    \E orig \in ValidNames, trailing \in BOOLEAN, name \in {NoName, Named(NewName)},
       broken \in {{}, {"snappyHexMeshDict"}, {"controlDict"}}, order \in LoadOrders :
        \E out \in {fromFolder(disk, <<orig>>, trailing, name, broken, order)} :
           /\ trailing => name.given
           /\ order # LoadOrder => out # fromFolder(disk, <<orig>>, trailing, name, broken, LoadOrder)
           /\ broken # {} => out # fromFolder(disk, <<orig>>, trailing, name, {}, order)
           /\ built' = [op |-> "fromFolder", arg |-> out.name, before |-> projectName,
                        geos |-> out.geometries, restValid |-> isdirPath(disk, <<orig>>),
                        raised |-> out.raised,
                        meshing |-> meshingDocument(disk, <<orig>>, broken)]
           /\ IF out.raised = "none"
              THEN /\ projectName' = out.name
                   /\ originalName' = out.originalName
                   /\ foamFiles' = out.foamFiles
                   /\ geometries' = out.geometries
                   /\ runmanager' = out.name
                   /\ snappyHexMeshDict' = TRUE
                   /\ refinementRegions' = out.regions
                   /\ registered' = out.regions
                   /\ added' = [op |-> "none", raised |-> "none", before |-> <<>>]
              ELSE UNCHANGED <<projectName, originalName, foamFiles, geometries, runmanager,
                               regionVars>>
           /\ saved' = NoSave
           /\ UNCHANGED <<disk, folderVars, commandVars, taskVars, laterVars>>

\* the caller adds a refinement region to a case it is about to save
MaxSavedRegions == 1

\* saving a case while the solver and the user add folders under its root
NextSave ==
    \/ Save
    \/ ExternalMkdir
    \/ (Len(refinementRegions) < MaxSavedRegions /\ AddRefinementRegion)

\* saving a case that is loaded back from a folder, under its name or a new one
NextSurface ==
    \/ Save
    \/ FromFolder

(***************************************************************************)
(* Specifications.                                                         *)
(***************************************************************************)
(***************************************************************************)
(* An operation between the listing it takes and its actions on the listed *)
(* names, with an external actor changing the root in between.             *)
(***************************************************************************)
MaxChanges == 2      \* folders an external actor removes or adds during one operation

ListingOps == {"freeze", "removeSnappyHexMeshFolders", "removeResultFolders",
               "copySnappyHexMesh"}

NoTask == [op |-> "idle", todo |-> <<>>, overwrite |-> FALSE, raised |-> "none",
           reported |-> {}, vanished |-> FALSE, stale |-> FALSE, changes |-> 0,
           changed |-> {}]

\* the test a name passed to enter the listing the operation works on
listedAs(op, r, f) ==
    IF op = "removeResultFolders"
    THEN f # Zero /\ isdigit(f) /\ isdir(r, f) /\ ~hasPolyMesh(r, f)
    ELSE isdigit(f) /\ hasPolyMesh(r, f)

\* the names the operation is going to act on, as listed: copySnappyHexMesh
\* takes the last of the mesh-snapshot listing
listingOf(op, r) ==
    CASE op = "removeResultFolders" -> getResultFolders(r)
      [] op = "copySnappyHexMesh" ->
            LET s == sourceOf(r, None) IN IF s.found THEN <<s.source>> ELSE <<>>
      [] OTHER -> getSnappyHexMeshFolders(r)

Acted(r, raised, reported, acted) ==
    [root |-> r, raised |-> raised, reported |-> reported, acted |-> acted]

\* the body of the operation's loop for the listed name f (for
\* copySnappyHexMesh, the statements after the listing): the name is handed
\* to os.rename, rmtree or copy_tree as listed, with no test of the folder
actOn(op, r, f, overwrite, failing) ==
    CASE op = "freeze" ->
            IF renameFails(r, f, addOrg(f), failing)
            THEN Acted(r, "Exception", {}, FALSE)
            ELSE Acted(rename(r, f, addOrg(f)), "none", {}, TRUE)
      [] op = "removeSnappyHexMeshFolders" ->
            IF rmtreeFails(r, f, failing)
            THEN Acted(r, "NameError", {}, FALSE)
            ELSE Acted(rmtree(r, f), "none", {}, TRUE)
      [] op = "removeResultFolders" ->
            IF rmtreeFails(r, f, failing)
            THEN Acted(r, "none", {f}, FALSE)
            ELSE Acted(rmtree(r, f), "none", {}, TRUE)
      [] OTHER ->
            LET cleared == IF overwrite THEN removePolyMeshContent(r, {}, {}) ELSE Quiet(r)
            IN IF cleared.raised # "none" THEN Acted(cleared.root, cleared.raised, {}, FALSE)
               ELSE IF copy_treeFails(cleared.root, f, f \in failing)
                    THEN Acted(cleared.root, "none", {f}, FALSE)
                    ELSE Acted(copy_tree(cleared.root, f), "none", {}, TRUE)

TaskStep(r, t) ==
    /\ root' = r
    /\ pre' = r
    /\ prev' = NoFreeze
    /\ last' = NoCall
    /\ returned' = NoListing
    /\ task' = t
    /\ UNCHANGED <<commandVars, regionVars, caseVars, saveVars, laterVars>>

\* the operation starts: removeSnappyHexMeshFolders first renames the frozen
\* folders back, then each operation takes its listing
TakeListing ==
    \E op \in ListingOps, overwrite \in BOOLEAN :
      \E order \in (IF op = "removeSnappyHexMeshFolders" THEN ListingOrders(root) ELSE {<<>>}) :
        LET restored == IF op = "removeSnappyHexMeshFolders"
                        THEN renameSnappyHexMeshFolders(root, FALSE, order, {})
                        ELSE Quiet(root)
        IN /\ task.op = "idle" /\ last.op = "idle"
           /\ overwrite => op = "copySnappyHexMesh"
           /\ TaskStep(restored.root,
                       [NoTask EXCEPT !.op = op, !.overwrite = overwrite,
                                      !.raised = restored.raised,
                                      !.todo = IF restored.raised # "none" THEN <<>>
                                               ELSE listingOf(op, restored.root)])

\* the operation reaches the next listed name
ActOnNext ==
    \E refused \in BOOLEAN :
        LET f == Head(task.todo)
            out == actOn(task.op, root, f, task.overwrite, IF refused THEN {f} ELSE {})
        IN /\ task.todo # <<>>
           /\ refused => out # actOn(task.op, root, f, task.overwrite, {})
           /\ TaskStep(out.root,
                       [task EXCEPT !.todo = IF out.raised # "none" THEN <<>> ELSE Tail(@),
                                    !.raised = out.raised,
                                    !.reported = @ \cup out.reported,
                                    !.vanished = /\ out.raised # "none"
                                                 /\ f \in task.changed
                                                 /\ ~isdir(root, f),
                                    !.stale = @ \/ /\ out.acted
                                                    /\ f \in task.changed
                                                    /\ ~listedAs(task.op, root, f)])

\* the operation returns or raises, and the caller goes on
FinishTask ==
    /\ task.op # "idle"
    /\ task.todo = <<>>
    /\ TaskStep(root, NoTask)

\* between the listing and an action on it, the solver or the user removes a
\* folder from the root
ExternalRemoves ==
    \E n \in listdir(root) \ SUBFOLDERS :
        /\ task.todo # <<>>
        /\ task.changes < MaxChanges
        /\ TaskStep(rmtree(root, n),
                    [task EXCEPT !.changes = @ + 1, !.changed = @ \cup {n}])

\* ... or adds one
ExternalAdds ==
    \E n \in ExtNames \ listdir(root), poly \in BOOLEAN :
        /\ task.todo # <<>>
        /\ task.changes < MaxChanges
        /\ Cardinality(listdir(root) \ SUBFOLDERS) < MaxFolders
        /\ n = PostProcessing => ~poly
        /\ TaskStep([x \in listdir(root) \cup {n} |->
                       IF x = n THEN NewFolder(poly) ELSE root[x]],
                    [task EXCEPT !.changes = @ + 1, !.changed = @ \cup {n}])

\* folders appear while no operation is under way
CreateWhileIdle ==
    /\ task.op = "idle"
    /\ ExternalCreate

NextStale ==
    \/ CreateWhileIdle
    \/ TakeListing
    \/ ExternalRemoves
    \/ ExternalAdds
    \/ ActOnNext
    \/ FinishTask

InitTask == task = NoTask

(***************************************************************************)
(* TunnelParameters (windtunnel.py).  A number is kept in tenths; an       *)
(* argument is an int, a float, None or a text that is no number.          *)
(***************************************************************************)
IntValue(n) == [kind |-> "int", tenths |-> 10 * n]

FloatValue(tenths) == [kind |-> "float", tenths |-> tenths]

NoneValue == [kind |-> "None", tenths |-> 0]

TextValue == [kind |-> "str", tenths |-> 0]

isNumber(input) == input.kind \in {"int", "float"}

\* the arguments a caller may hand to TunnelParameters
TunnelInputs ==
    { IntValue(-1), IntValue(0), IntValue(3), FloatValue(5), NoneValue, TextValue }

\* a check that lets zero pass
checkInputNotNegative(input) ==
    CASE input.kind = "None" -> [raised |-> "ValueError", value |-> NoneValue]
      [] input.kind = "str" -> [raised |-> "ValueError", value |-> NoneValue]
      [] OTHER -> IF input.tenths >= 0
                  THEN [raised |-> "none", value |-> FloatValue(input.tenths)]
                  ELSE [raised |-> "AssertionError", value |-> NoneValue]

\* __check_input: float(input), a TypeError of the conversion raised anew as
\* ValueError, its own ValueError left to pass, then the assert _inp > 0
checkInput(input) ==
    CASE input.kind = "None" -> [raised |-> "ValueError", value |-> NoneValue]
      [] input.kind = "str" -> [raised |-> "ValueError", value |-> NoneValue]
      [] OTHER -> IF input.tenths > 0
                  THEN [raised |-> "none", value |-> FloatValue(input.tenths)]
                  ELSE [raised |-> "AssertionError", value |-> NoneValue]

\* TunnelParameters.__init__: windward, top, side, leeward are checked in
\* that order and the first exception ends the construction
RECURSIVE firstRaised(_)
firstRaised(args) ==
    IF args = <<>> THEN "none"
    ELSE IF checkInput(Head(args)).raised # "none" THEN checkInput(Head(args)).raised
    ELSE firstRaised(Tail(args))

TunnelParameters(windward, top, side, leeward) ==
    [raised |-> firstRaised(<<windward, top, side, leeward>>),
     windward |-> checkInput(windward).value, top |-> checkInput(top).value,
     side |-> checkInput(side).value, leeward |-> checkInput(leeward).value]

\* no object: the construction raised
NoTunnelParameters ==
    [raised |-> "none", windward |-> NoneValue, top |-> NoneValue, side |-> NoneValue,
     leeward |-> NoneValue]

\* TunnelParameters(): the default arguments 3, 5, 5, 15
DefaultTunnelParameters ==
    TunnelParameters(IntValue(3), IntValue(5), IntValue(5), IntValue(15))

InitTunnel ==
    tunnel = [args |-> <<>>, raised |-> "none", object |-> DefaultTunnelParameters]

\* tp = TunnelParameters(windward, top, side, leeward): the object when the
\* construction returns, none when it raises
NewTunnelParameters ==
    \E windward, top, side, leeward \in TunnelInputs :
        LET tp == TunnelParameters(windward, top, side, leeward)
        IN /\ tunnel' = [args |-> <<windward, top, side, leeward>>, raised |-> tp.raised,
                         object |-> IF tp.raised = "none" THEN tp ELSE NoTunnelParameters]
           /\ UNCHANGED <<ortho, bashLog, folderVars, commandVars, regionVars,
                          caseVars, saveVars, taskVars>>

NextTunnel == NewTunnelParameters

(***************************************************************************)
(* calculateMeshOrthogonality.  The run manager writes checkMesh.log under *)
(* the log folder of the layout, <root>\log; the method reads              *)
(* checkMesh.log under Case.logFolder, <root>\bash\log.  A log text is the *)
(* sequence of its tokens.                                                 *)
(***************************************************************************)
MaxMarker == "Mesh non-orthogonality Max:"

AverageMarker == "average:"

\* the texts checkMesh may leave in its log
CheckMeshLogs == LogContents \cup {"checked", "maxOnly", "averageOnly"}

logText(content) ==
    CASE content = "checked" ->
            <<"Checking geometry", MaxMarker, "60", AverageMarker, "10", "\n", "End">>
      [] content = "maxOnly" -> <<"Checking geometry", MaxMarker, "60", "\n", "End">>
      [] content = "averageOnly" -> <<"cells", AverageMarker, "10", "\n", "End">>
      [] content = "End" -> <<"End">>
      [] OTHER -> <<>>

\* text.split(marker)[-1]: what follows the last marker, the whole text
\* when there is none
afterLast(text, marker) ==
    LET at == {i \in 1..Len(text) : text[i] = marker}
    IN IF at = {} THEN text
       ELSE SubSeq(text, (CHOOSE i \in at : \A j \in at : j <= i) + 1, Len(text))

\* text.split(marker): the pieces between the markers
RECURSIVE split(_, _)
split(text, marker) ==
    LET at == {i \in 1..Len(text) : text[i] = marker}
    IN IF at = {} THEN <<text>>
       ELSE LET first == CHOOSE i \in at : \A j \in at : i <= j
            IN <<SubSeq(text, 1, first - 1)>> \o split(SubSeq(text, first + 1, Len(text)), marker)

Numerals == {"60", "10"}

\* float(text): the number of a text that is one numeral, ValueError otherwise
isFloat(text) == Len(text) = 1 /\ text[1] \in Numerals

float(text) == IF text[1] = "60" THEN 60 ELSE 10

Orthogonality(raised, maximum, average, read) ==
    [op |-> "calculateMeshOrthogonality", raised |-> raised, maximum |-> maximum,
     average |-> average, read |-> read]

\* the statements after the run: the file under logFolder is asserted and
\* read, split at the two markers, and the two figures are converted
readOrthogonality(f) ==
    IF f = "absent" THEN Orthogonality("AssertionError", 0, 0, "none")
    ELSE LET pieces == split(afterLast(logText(f), MaxMarker), AverageMarker)
         IN IF Len(pieces) < 2 THEN Orthogonality("ValueError", 0, 0, "logFolder")
            ELSE LET maximum == pieces[1]
                     average == split(pieces[2], "\n")[1]
                 IN IF isFloat(maximum) /\ isFloat(average)
                    THEN Orthogonality("none", float(maximum), float(average), "logFolder")
                    ELSE Orthogonality("ValueError", 0, 0, "logFolder")

\* calculateMeshOrthogonality(useCurrntCheckMeshLog): checked is what checkMesh
\* returned, f the file under logFolder
calculateMeshOrthogonality(useCurrntCheckMeshLog, checked, f) ==
    IF ~useCurrntCheckMeshLog /\ ~checked.success
    THEN Orthogonality("AssertionError", 0, 0, "none")
    ELSE readOrthogonality(f)

InitOrtho ==
    /\ ortho = [op |-> "none"]
    /\ bashLog = "absent"

\* calculateMeshOrthogonality(useCurrntCheckMeshLog): unless the current log
\* is asked for, checkMesh is run and waited for first
CalculateMeshOrthogonality ==
    \E useCurrntCheckMeshLog \in BOOLEAN :
      \E out \in (IF useCurrntCheckMeshLog THEN {logFile["checkMesh"]} ELSE CheckMeshLogs),
         err \in (IF useCurrntCheckMeshLog THEN {errFile["checkMesh"]} ELSE ErrContents) :
        LET checked == commandResult("checkMesh", TRUE, out, err)
            o == calculateMeshOrthogonality(useCurrntCheckMeshLog, checked, bashLog)
        IN /\ proc # "running"
           /\ ortho' = [useCurrntCheckMeshLog |-> useCurrntCheckMeshLog] @@ o
           /\ logFile' = [logFile EXCEPT !["checkMesh"] = out]
           /\ errFile' = [errFile EXCEPT !["checkMesh"] = err]
           /\ IF useCurrntCheckMeshLog
              THEN UNCHANGED <<proc, invoked, result>>
              ELSE /\ proc' = "exited"
                   /\ invoked' = Wrapped("checkMesh", TRUE, FALSE)
                   /\ result' = checked
           /\ UNCHANGED <<bashLog, tunnel, folderVars, regionVars, caseVars, saveVars, taskVars>>

\* something outside the case leaves a checkMesh.log under <root>\bash\log,
\* or removes it
ExternalWritesBashLog ==
    \E content \in {"absent", "checked", "End"} \ {bashLog} :
        /\ bashLog' = content
        /\ UNCHANGED <<ortho, tunnel, folderVars, commandVars, regionVars, caseVars, saveVars,
                       taskVars>>

NextOrtho ==
    \/ CalculateMeshOrthogonality
    \/ ExternalWritesBashLog

Init ==
    /\ InitFolders /\ InitCommand /\ InitRegions /\ InitCase /\ InitSave /\ InitTask
    /\ InitTunnel /\ InitOrtho

Next ==
    \/ NextFolders \/ Purge \/ CopySnappyHexMesh
    \/ NextCommand \/ BlockMesh \/ SnappyHexMesh \/ CheckMesh
    \/ NextRegions
    \/ NextBuild
    \/ Save \/ ExternalMkdir \/ RenameProject \/ FromFolder
    \/ NextStale
    \/ NextTunnel
    \/ NextOrtho

Spec == Init /\ [][Next]_vars

\* a case built with a meshing document (fromBFGeometries, fromFolder)
InitMeshed == Init /\ snappyHexMeshDict

SpecFolders == InitMeshed /\ [][NextFolders]_vars

SpecPurge == InitMeshed /\ [][NextPurge]_vars

SpecCommand == InitMeshed /\ [][NextCommand]_vars

SpecRegions == Init /\ [][NextRegions]_vars

SpecCopy == InitMeshed /\ [][NextCopy]_vars

SpecBuild == Init /\ [][NextBuild]_vars

SpecWrappers == InitMeshed /\ [][NextWrappers]_vars

SpecStale == InitMeshed /\ [][NextStale]_vars

SpecOrtho == InitMeshed /\ [][NextOrtho]_vars

SpecTunnel == InitMeshed /\ [][NextTunnel]_vars

SpecSave == InitMeshed /\ [][NextSave]_vars

\* a case with a refinement region, saved
InitSurface ==
    /\ InitFolders /\ InitCommand /\ InitTask /\ InitTunnel /\ InitOrtho
    /\ snappyHexMeshDict = TRUE
    /\ refinementRegions = <<"region1">>
    /\ registered = <<"region1">>
    /\ added = [op |-> "addRefinementRegion", raised |-> "none", before |-> <<>>]
    /\ InitCase /\ InitSave

SpecSurface == InitSurface /\ [][NextSurface]_vars

(***************************************************************************)
(* Claims about the folder tree.                                           *)
(***************************************************************************)
InSeq(x, q) == \E i \in 1..Len(q) : q[i] = x

Unchanged(n) == n \in listdir(root) /\ root[n] = pre[n]

\* C3: after purge, whatever its flags, the field folder 0 and its documents,
\* the documents of constant and system, and blockMeshDict in the live mesh
\* folder all still exist unchanged, also when 0 holds a polyMesh subfolder.
C3_PurgeKeepsAuthoritative ==
    last.op = "purge" =>
        /\ isdir(pre, Zero) => Unchanged(Zero)
        /\ \A n \in {ConstantDir, SystemDir} :
              isdir(pre, n) => isdir(root, n) /\ root[n].docs = pre[n].docs
        /\ "blockMeshDict" \in pre[ConstantDir].mesh =>
              isdir(root, ConstantDir) /\ "blockMeshDict" \in root[ConstantDir].mesh

\* the folders a purge with these flags selects for deletion in the tree r
Selected(r, flags) ==
    {n \in listdir(r) :
        \/ flags.snappy /\ isdigit(n) /\ hasPolyMesh(r, n)
        \/ flags.snappy /\ endswithOrg(n) /\ hasPolyMesh(r, n)
        \/ flags.result /\ n # Zero /\ isdigit(n) /\ ~hasPolyMesh(r, n)
        \/ flags.post /\ n = PostProcessing}

\* C4: when a removal is refused during purge, purge does not raise, the
\* refusal is reported, and every other folder selected for deletion (and
\* every other entry of the live mesh folder) is still removed.
C4_PurgeBestEffort ==
    (last.op = "purge" /\ (last.failing # {} \/ last.failMesh # {})) =>
        /\ last.raised = "none"
        /\ \A n \in Selected(pre, last.flags) \ last.failing : ~isdir(root, n)
        /\ last.flags.polyMesh =>
              root[ConstantDir].mesh \subseteq ({"blockMeshDict"} \cup last.failMesh)

\* C5: a freeze followed by a restore, both returning without an error, leaves
\* the set of folder names under the root equal to the set before the freeze.
C5_FreezeRestoreRoundTrip ==
    (last.op = "restore" /\ last.raised = "none" /\ prev.op = "freeze") =>
        listdir(root) = prev.names

\* the frozen folders of r that restore would rename onto an existing name
Colliding(r) ==
    {f \in listdir(r) : endswithOrg(f) /\ hasPolyMesh(r, f) /\ isdir(r, replaceOrg(f))}

\* C6: when restore would rename a frozen folder onto a name that already
\* exists, it raises, and the folder of that name is still there, unchanged.
C6_RestoreCollisionRaises ==
    (last.op = "restore" /\ Colliding(pre) # {}) =>
        /\ last.raised # "none"
        /\ \A f \in Colliding(pre) : Unchanged(replaceOrg(f))

\* C6 witness: a restore met a frozen folder whose target name existed, with
\* different content, and raised.
C6_Witness ==
    /\ last.op = "restore"
    /\ last.failing = {}
    /\ last.raised = "OSError"
    /\ \E f \in Colliding(pre) : pre[f] # pre[replaceOrg(f)] /\ isdir(root, f)

\* C7: the two listings partition the integer-named folders other than 0: such
\* a folder is in the mesh listing iff it holds a polyMesh subfolder and in the
\* result listing otherwise, no name is in both, and 0 is no result folder.
C7_ListingsPartition ==
    last.op = "list" =>
        /\ \A n \in listdir(root) : (isdigit(n) /\ n # Zero) =>
              /\ InSeq(n, returned.mesh) <=> hasPolyMesh(root, n)
              /\ InSeq(n, returned.result) <=> ~hasPolyMesh(root, n)
        /\ \A i \in 1..Len(returned.mesh) : ~InSeq(returned.mesh[i], returned.result)
        /\ ~InSeq(Zero, returned.result)

\* C8: each listing holds exactly the names of the folders of its class, each
\* once, in ascending numeric order.
C8_ListingsSortedExact ==
    last.op = "list" =>
        /\ \A i, j \in 1..Len(returned.mesh) :
              i < j => int(returned.mesh[i]) < int(returned.mesh[j])
        /\ \A i, j \in 1..Len(returned.result) :
              i < j => int(returned.result[i]) < int(returned.result[j])
        /\ {returned.mesh[i] : i \in 1..Len(returned.mesh)} =
              {n \in listdir(root) : isdigit(n) /\ hasPolyMesh(root, n)}
        /\ {returned.result[i] : i \in 1..Len(returned.result)} =
              {n \in listdir(root) : n # Zero /\ isdigit(n) /\ ~hasPolyMesh(root, n)}

\* C9: a purge leaves every category whose flag is False as it was: the live
\* mesh folder's content, the numbered mesh-snapshot folders, the numbered
\* result folders, the post-processing folder.
C9_FlagsGateCategories ==
    last.op = "purge" =>
        /\ ~last.flags.polyMesh => root[ConstantDir].mesh = pre[ConstantDir].mesh
        /\ ~last.flags.snappy =>
              \A n \in listdir(pre) : (n # Zero /\ isdigit(n) /\ hasPolyMesh(pre, n)) => Unchanged(n)
        /\ ~last.flags.result =>
              \A n \in listdir(pre) : (n # Zero /\ isdigit(n) /\ ~hasPolyMesh(pre, n)) => Unchanged(n)
        /\ ~last.flags.post => (isdir(pre, PostProcessing) => Unchanged(PostProcessing))

C2_NoSuccessBeforeExit ==
    /\ (result.kind = "log" /\ result.success) => proc = "exited"
    /\ (result.kind # "none" /\ ~invoked.wait) => result.kind = "cmdlog"

(***************************************************************************)
(* Claims about the refinement regions.                                    *)
(***************************************************************************)
\* C10: refinementRegions always holds exactly the regions registered with the
\* meshing document, in insertion order, and a failing addRefinementRegion
\* call leaves it as it was.
C10_RegionsMatchRegistered ==
    /\ refinementRegions = registered
    /\ added.raised # "none" => refinementRegions = added.before

(***************************************************************************)
(* Claims about copySnappyHexMesh.                                         *)
(***************************************************************************)
\* C13: copySnappyHexMesh never returns normally without the mesh description
\* of its source folder having been copied into the live mesh folder: a source
\* without a polyMesh subfolder, or no mesh snapshot at all, is an error.
C13_PromoteFailsWithoutMesh ==
    (last.op = "copy" /\ last.raised = "none") =>
        /\ last.copied
        /\ hasPolyMesh(pre, last.source)
        /\ hasPolyMesh(root, ConstantDir)
        /\ pre[last.source].mesh \subseteq root[ConstantDir].mesh

\* the numerically highest-numbered folder holding a mesh description
Snapshots(r) == {n \in listdir(r) : isdigit(n) /\ hasPolyMesh(r, n)}

IsLatest(r, n) == n \in Snapshots(r) /\ \A m \in Snapshots(r) : int(m) <= int(n)

\* C14: a copy is taken from the folder named by folderNumber whenever one is
\* given (0 included), from the highest-numbered mesh snapshot when none is
\* given, and with overwrite the live mesh folder holds only blockMeshDict
\* and the copied entries afterwards.
C14_PromoteSource ==
    (last.op = "copy" /\ last.copied) =>
        /\ last.folderNumber.given => last.source = str(last.folderNumber.n)
        /\ ~last.folderNumber.given => IsLatest(pre, last.source)
        /\ last.overwrite =>
             root[ConstantDir].mesh =
                 (pre[ConstantDir].mesh \cap {"blockMeshDict"}) \cup pre[last.source].mesh

(***************************************************************************)
(* Claims about construction and the project name.                         *)
(***************************************************************************)
InTuple(x, q) == \E i \in 1..Len(q) : q[i] = x

\* C15: a case built by fromBFGeometries from valid geometries is constructed,
\* holds the snappyHexMeshDict instance built from the geometries among its
\* documents, retrievable by name, with the mesh-extent document, one document
\* per recognized field and the system defaults, and can take refinement
\* regions.
C15_FromGeometriesDocuments ==
    (built.op = "fromBFGeometries" /\ built.restValid /\ built.arg \in ValidNames) =>
        /\ built.raised = "none"
        /\ InTuple(snappyHexMeshDictInstance, foamFiles)
        /\ getFoamFileByName("snappyHexMeshDict", foamFiles).found = snappyHexMeshDictInstance
        /\ getFoamFileByName("blockMeshDict", foamFiles).found.kind = "instance"
        /\ \A i \in 1..Len(FieldNames) :
             getFoamFileByName(FieldNames[i], foamFiles).found.kind = "instance"
        /\ \A n \in {"fvSchemes", "fvSolution", "controlDict"} :
             getFoamFileByName(n, foamFiles).found.kind = "instance"
        /\ snappyHexMeshDict

\* a name with whitespace or a character outside [A-Za-z0-9_]
HasInvalidCharacter(name) == \E i \in 1..Len(name) : name[i] \notin WordChars

\* C16: setting the project name, at construction or through the setter,
\* fails for every name with whitespace or a character outside [A-Za-z0-9_]
\* and leaves the previous name in place, and succeeds for every name made
\* only of those characters.
C16_ProjectNameValidated ==
    /\ HasInvalidCharacter(built.arg) =>
         built.raised = "AssertionError" /\ projectName = built.before
    /\ (~HasInvalidCharacter(built.arg) /\ built.restValid /\ built.op # "fromBFGeometries") =>
         built.raised = "none" /\ projectName = built.arg

(***************************************************************************)
(* Claims about save.                                                      *)
(***************************************************************************)
SaveReturned == saved.op = "save" /\ saved.raised = "none"

\* C11: after a successful save every canonical folder path the case derives
\* is a directory under the project root: the field folder, constant, system,
\* the log folder, the live mesh folder and the surface-geometry folder.
C11_DerivedFoldersExist ==
    SaveReturned =>
        \A p \in {zeroFolder(projectName), constantFolder(projectName),
                  systemFolder(projectName), logFolder(projectName),
                  polyMeshFolder(projectName), triSurfaceFolder(projectName)} :
            isdirPath(disk, p)

\* C12: a second save(overwrite=False) right after a first, with no external
\* mutation and no in-memory change in between, leaves the tree as the first
\* left it, each file written once.
C12_SaveTwiceSameTree ==
    (SaveReturned /\ saved.again /\ ~saved.overwrite) =>
        /\ disk = saved.before
        /\ \A i \in 1..Len(foamFiles) :
             LET p == projectDir(projectName) \o foamFiles[i].location
                          \o << <<foamFiles[i].name>> >>
             IN isfilePath(disk, p) /\ disk[p].content = <<foamFiles[i].content>>

C12_Witness ==
    /\ SaveReturned /\ saved.again /\ ~saved.overwrite
    /\ Len(saved.written) > Len(foamFiles)
    /\ refinementRegions # <<>>

\* the paths under the project root
UnderRoot(d) == {p \in DOMAIN d : under(p, projectDir(projectName)) /\ Len(p) > 1}

CanonicalPaths == {projectDir(projectName) \o SubfolderPaths[i] : i \in 1..Len(SubfolderPaths)}

Written == {saved.written[i] : i \in 1..Len(saved.written)}

\* save(overwrite=False) leaves what the case does not write as it was
KeepsOthers ==
    (SaveReturned /\ ~saved.overwrite) =>
        \A p \in DOMAIN saved.before :
            p \notin Written => (p \in DOMAIN disk /\ disk[p] = saved.before[p])

\* C19 as stated: after a successful save(overwrite=True) the root holds only
\* the canonical subfolders and the files the case wrote, nothing from before
\* the call; save(overwrite=False) leaves what it does not write unchanged.
C19_OverwriteLeavesOnlyCase ==
    /\ (SaveReturned /\ saved.overwrite) =>
           UnderRoot(disk) \subseteq (CanonicalPaths \cup Written)
    /\ KeepsOthers

\* C19 amended: after a successful save(overwrite=True) the root holds only
\* the canonical subfolders, the files the case wrote and the entries whose
\* removal the best-effort delete was refused, so nothing from before the
\* call when no removal is refused; save(overwrite=False) leaves what it
\* does not write unchanged.
C19_OverwriteBestEffort ==
    /\ (SaveReturned /\ saved.overwrite) =>
           UnderRoot(disk) \subseteq (CanonicalPaths \cup Written \cup saved.refused)
    /\ KeepsOthers

C19_Witness ==
    /\ SaveReturned /\ saved.overwrite /\ saved.refused = {}
    /\ \E p \in DOMAIN saved.before :
          Len(p) = 2 /\ p[1] = projectName /\ p[2] \in ExternalFolders /\ p \notin DOMAIN disk

\* C20: a successful save writes exactly one merged surface file, into the
\* surface-geometry folder, named after the original name when the case has
\* one and after the project name otherwise, and one surface file per
\* refinement region.
HasOriginalName == originalName.given /\ originalName.name # <<>>

SurfaceFiles ==
    {p \in Written : SubSeq(p, 1, Len(p) - 1) = triSurfaceFolder(projectName)}

RegionFiles ==
    {Append(triSurfaceFolder(projectName), stlFile(<<refinementRegions[i]>>)) :
        i \in 1..Len(refinementRegions)}

MergedFile ==
    Append(triSurfaceFolder(projectName),
           stlFile(IF HasOriginalName THEN originalName.name ELSE projectName))

C20_SurfaceFileNames ==
    SaveReturned =>
        /\ MergedFile \in SurfaceFiles
        /\ SurfaceFiles = {MergedFile} \cup RegionFiles
        /\ isfilePath(disk, MergedFile) /\ disk[MergedFile].content = geometries
        /\ \A p \in RegionFiles : isfilePath(disk, p)
        /\ Cardinality({i \in 1..Len(saved.written) : saved.written[i] = MergedFile}) = 1

C20_Witness ==
    /\ SaveReturned
    /\ HasOriginalName /\ originalName.name # projectName
    /\ refinementRegions # <<>>
    /\ isfilePath(disk, MergedFile)

(***************************************************************************)
(* Claims about the wrappers.                                              *)
(***************************************************************************)
\* the result command gives for the wrapper's command and wait flag
AsCommand ==
    result = commandResult(last.op, invoked.wait, logFile[last.op], errFile[last.op])

\* C18 as stated: a wrapper call changes the folder tree and returns exactly
\* as the call of command with its preset does, with no effect of its own.
C18_WrappersArePresets ==
    last.op \in Commands =>
        /\ root = pre
        /\ last.raised = "none"
        /\ AsCommand

\* C18 amended: snappyHexMesh and checkMesh, and blockMesh with
\* overwrite=False, change the folder tree and return exactly as the call of
\* command does; blockMesh with overwrite=True first removes every entry of
\* the live mesh folder but blockMeshDict, then returns as command does, and
\* when that removal raises the exception ends the call before any command
\* is run.
C18_WrappersPresetsButOverwrite ==
    last.op \in Commands =>
        IF last.op = "blockMesh" /\ invoked.overwrite
        THEN /\ \A n \in listdir(pre) \ {ConstantDir} : n \in listdir(root) /\ root[n] = pre[n]
             /\ listdir(root) = listdir(pre)
             /\ last.raised = "none" =>
                  /\ root[ConstantDir].mesh = pre[ConstantDir].mesh \cap {"blockMeshDict"}
                  /\ AsCommand
             /\ last.raised # "none" =>
                  /\ result.kind = "raised"
                  /\ ~invoked.run
                  /\ pre[ConstantDir].mesh \cap {"blockMeshDict"} \subseteq root[ConstantDir].mesh
        ELSE /\ root = pre
             /\ last.raised = "none"
             /\ AsCommand

C18_Witness ==
    /\ last.op = "blockMesh" /\ invoked.overwrite /\ last.raised = "none"
    /\ "points" \in pre[ConstantDir].mesh
    /\ root[ConstantDir].mesh = {"blockMeshDict"}
    /\ result.kind = "log"

(***************************************************************************)
(* Claims about a listing that went stale.                                 *)
(***************************************************************************)
\* C17: an operation that works on a listing taken earlier tests each listed
\* folder again before it acts: it never raises because a listed folder has
\* vanished, and never renames, removes or copies a folder that no longer
\* is what the listing took it for.
C17_ListingRevalidated ==
    /\ ~task.vanished
    /\ ~task.stale

(***************************************************************************)
(* Claims about the documents and geometries a case holds.                 *)
(***************************************************************************)
DocumentNames == {foamFiles[i].name : i \in {j \in 1..Len(foamFiles) : foamFiles[j].kind = "instance"}}

LacksCapability(geos) == \E i \in 1..Len(geos) : geos[i] \notin Geometries

\* C23: a constructor call (Case, fromBFGeometries) handed a geometry
\* without the case-geometry capability raises, an AssertionError when the
\* name and the documents are valid, and no case holds such a geometry.
C23_GeometriesValidated ==
    /\ (built.op \in {"Case", "fromBFGeometries"} /\ LacksCapability(built.geos)) =>
          /\ built.raised # "none"
          /\ (built.op = "fromBFGeometries" /\ reMatch(built.arg)) => built.raised = "AssertionError"
    /\ ~LacksCapability(geometries)

C23_Witness ==
    /\ built.op = "Case"
    /\ LacksCapability(built.geos)
    /\ reMatch(built.arg)
    /\ built.raised = "AssertionError"
    /\ projectName = built.before

\* C28: the project the run manager was built for is the case's current
\* project name, in every state, also after the name was set anew.
C28_RunManagerFollowsName == runmanager = projectName

\* C29: every entry of the document collection of a case is a document: no
\* construction leaves a None entry in it.
C29_NoEmptyDocumentEntry ==
    \A i \in 1..Len(foamFiles) : foamFiles[i].kind = "instance"

(***************************************************************************)
(* Claims about a save that fails.                                         *)
(***************************************************************************)
\* the path save writes the i-th document to
DocumentPath(i) == projectDir(projectName) \o foamFiles[i].location \o << <<foamFiles[i].name>> >>

\* the document whose writing the file system refused, 0 when none was
FailedDocument ==
    IF saved.op = "save" /\ saved.failAt > Len(SubfolderPaths)
       /\ saved.failAt <= Len(SubfolderPaths) + Len(foamFiles)
    THEN saved.failAt - Len(SubfolderPaths) ELSE 0

\* C22: when saving the k-th document fails, save raises the I/O error, the
\* k-1 documents before it are on disk as written, and nothing else is
\* written by the call: no later document and no surface file.
C22_PartialSaveNoRollback ==
    FailedDocument > 0 =>
        /\ saved.raised = "IOError"
        /\ saved.written = [i \in 1..(FailedDocument - 1) |-> DocumentPath(i)]
        /\ \A i \in 1..(FailedDocument - 1) :
              /\ isfilePath(disk, DocumentPath(i))
              /\ disk[DocumentPath(i)].content = <<foamFiles[i].content>>
        /\ \A p \in DOMAIN disk :
              (isfilePath(disk, p) /\ p \notin Written) =>
                  (p \in DOMAIN saved.before /\ disk[p] = saved.before[p])

C22_Witness ==
    /\ FailedDocument = 2
    /\ saved.raised = "IOError"
    /\ DocumentPath(1) \notin DOMAIN saved.before
    /\ isfilePath(disk, DocumentPath(1))
    /\ ~exists(disk, Append(triSurfaceFolder(projectName), stlFile(stlName(originalName, projectName))))

(***************************************************************************)
(* Claims about fromFolder.                                                *)
(***************************************************************************)
\* C24: fromFolder on a folder whose scan yields no meshing document, the
\* file absent or not parsed, raises (an AttributeError, from the lookup of
\* the document's attributes on None) and returns no case: the caller's case
\* is the one it had.
C24_NoMeshingDocumentFails ==
    (built.op = "fromFolder" /\ built.restValid /\ built.meshing # "parsed") =>
        /\ built.raised = "AttributeError"
        /\ projectName = built.before

C24_Witness ==
    /\ built.op = "fromFolder" /\ built.restValid
    /\ built.meshing = "absent"
    /\ built.raised = "AttributeError"
    /\ isdirPath(disk, systemFolder(built.arg))

(***************************************************************************)
(* Claims about the removal of the mesh snapshots.                         *)
(***************************************************************************)
\* C27: purge with removeSnappyHexMeshFolders=True restores the frozen
\* snapshot folders and then removes the numbered ones: when the file system
\* refuses nothing, the call returns and no integer-named folder and no
\* frozen folder that holds a mesh description is left under the root.
C27_PurgeRemovesSnapshots ==
    (last.op = "purge" /\ last.flags.snappy /\ last.failing = {} /\ last.failMesh = {}) =>
        /\ last.raised \in {"none"} \cup (IF last.flags.polyMesh THEN {"OSError"} ELSE {})
        /\ last.raised = "none" =>
             \A n \in listdir(root) :
                 (isdigit(n) \/ endswithOrg(n)) => ~hasPolyMesh(root, n)

(***************************************************************************)
(* Claims about TunnelParameters.                                          *)
(***************************************************************************)
Multipliers(tp) == <<tp.windward, tp.top, tp.side, tp.leeward>>

\* C26: the construction of TunnelParameters raises for every argument that
\* is zero or negative and otherwise keeps each number as given, so every
\* object built has its four multipliers greater than 0.
C26_TunnelParametersPositive ==
    /\ tunnel.object # NoTunnelParameters =>
          \A i \in 1..4 : Multipliers(tunnel.object)[i].tenths > 0
    /\ tunnel.raised # "none" => tunnel.object = NoTunnelParameters
    /\ \A i \in 1..Len(tunnel.args) :
          (isNumber(tunnel.args[i]) /\ tunnel.args[i].tenths <= 0) => tunnel.raised # "none"
    /\ (tunnel.args # <<>> /\ \A i \in 1..Len(tunnel.args) :
            isNumber(tunnel.args[i]) /\ tunnel.args[i].tenths > 0) =>
          /\ tunnel.raised = "none"
          /\ \A i \in 1..4 : Multipliers(tunnel.object)[i].tenths = tunnel.args[i].tenths

C26_Witness ==
    /\ tunnel.args = <<IntValue(3), IntValue(3), FloatValue(5), IntValue(0)>>
    /\ tunnel.raised = "AssertionError"
    /\ tunnel.object = NoTunnelParameters

(***************************************************************************)
(* Claims about the mesh-orthogonality check.                              *)
(***************************************************************************)
HasMarkers(content) ==
    \E i, j \in 1..Len(logText(content)) :
        i < j /\ logText(content)[i] = MaxMarker /\ logText(content)[j] = AverageMarker

RanCheckMesh == ortho.op = "calculateMeshOrthogonality" /\ ~ortho.useCurrntCheckMeshLog

\* C25: the orthogonality check that runs checkMesh raises an AssertionError
\* when the run did not report success, a ValueError when the log the run
\* wrote lacks the markers, and returns the two figures of that log when the
\* run reported success and the log holds both markers.
C25_OrthogonalityFromRunLog ==
    RanCheckMesh =>
        /\ ~result.success => ortho.raised = "AssertionError"
        /\ (result.success /\ ~HasMarkers(logFile["checkMesh"])) => ortho.raised = "ValueError"
        /\ (result.success /\ HasMarkers(logFile["checkMesh"])) =>
              /\ ortho.raised = "none"
              /\ ortho.maximum = 60 /\ ortho.average = 10
        /\ ortho.raised = "none" => (result.success /\ HasMarkers(logFile["checkMesh"]))

==============================================================================
